---- MODULE Spec2Model ----
(***************************************************************************)
(* glinda.testing.services: the ServiceLayer fixture, its Service          *)
(* instances (endpoints, programmed responses, request log) and the        *)
(* tornado application that dispatches inbound requests to them.           *)
(*                                                                         *)
(* Strings that the code takes apart (path segments, resource paths) are   *)
(* sequences of one-character strings; other strings are TLA+ strings.     *)
(* A dict is a function; a defaultdict(list) is a function holding its     *)
(* non-empty lists, a missing key reading as the empty list.               *)
(***************************************************************************)
EXTENDS Integers, Sequences, FiniteSets, TLC

VARIABLES
    _services,        \* ServiceLayer._services: name -> Service (its port), NoService if absent
    sockets,          \* sockets attached to ServiceLayer._server, in add_socket order
    listening,        \* the acceptor sockets that are open
    in_flight,        \* requests whose handler has run prepare and not yet its method
    name_of,          \* Service.name, per service
    _endpoints,       \* Service._endpoints, per service
    _responses,       \* Service._responses, per service: (method, path) -> queue
    _requests,        \* Service._requests, per service: path -> recorded Requests
    rules,            \* _Application.default_router.rules
    added,            \* history: per service and key, the responses add_response appended
    delivered,        \* history: per service and key, the responses get_next_response returned
    made,             \* history: per service and path, the requests dispatched to it, in order
    nAdds,            \* history: number of add_response calls
    nReqs,            \* history: number of inbound requests
    url_prev,         \* history: the url_for call before the last one
    _content_types,   \* glinda.content._content_types: key -> ContentType
    _content_handlers,\* glinda.content._content_handlers: key -> _ContentHandler
    request_handler,  \* the RequestHandler (with HandlerMixin) of the request in progress
    calls,            \* history: what the handler's get_request_body and send_response did
    heap,             \* the dict objects of the test, by address
    locals,           \* the addresses of the dicts the test made itself
    built,            \* the Response objects the test built, with their arguments
    torn_down,        \* whether the test that owns the ServiceLayer is over
    last              \* outcome of the last call or request

\* what the ServiceLayer, its services and its application hold
service_vars == <<_services, sockets, listening, in_flight, name_of, _endpoints, _responses, _requests, rules,
                  added, delivered, made, nAdds, nReqs>>

url_vars == <<url_prev>>

content_vars == <<_content_types, _content_handlers, request_handler, calls>>

\* what the test case that owns the fixture holds
test_vars == <<heap, locals, built, torn_down>>

vars == <<service_vars, url_vars, content_vars, test_vars, last>>

-----------------------------------------------------------------------------
(* Bounds of the model *)

MaxSockets == 3      \* sockets the server can hold
MaxAdds == 2         \* add_response calls in a test of one service
MaxReqs == 2         \* inbound requests in a test of one service
MaxLayerAdds == 1    \* add_response calls in a test of two services
MaxLayerReqs == 2    \* inbound requests in a test of two services
MaxSends == 2        \* send_response calls of one request handler
MaxBodyCalls == 2    \* get_request_body calls of one request handler
MaxDicts == 4        \* dict objects of one test
MaxResponses == 2    \* Response objects one test builds by hand
MaxInFlight == 2     \* requests the server handles at a time

-----------------------------------------------------------------------------
(* Values *)

None == "<None>"
EmptyDict == [k \in {} |-> ""]
NoService == 0

Names == {"s1", "s2"}
Methods == {"GET", "POST"}

\* path segments, as a test passes them to url_for, Request, add_endpoint, ...
SegA == <<"a">>
SegSlashA == <<"/", "a">>
SegSpace == <<" ">>
SegLists == {<< >>, <<SegA>>, <<SegSlashA>>, <<SegSpace>>}
PathLists == SegLists \cup {<<SegA, SegSpace>>}

\* keyword arguments of url_for / assert_request
KeyOrder == <<"arg", "foo">>
Kwargs == {EmptyDict, [foo |-> "bar"], [arg |-> "value", foo |-> "bar"]}

\* what a client sends along: (body, headers)
PlainPayload == [body |-> "", headers |-> EmptyDict]

\* the calls the application under test makes: method, query and payload
ClientCalls == {[method |-> "GET", query |-> EmptyDict, payload |-> PlainPayload],
                [method |-> "GET", query |-> [foo |-> "bar"], payload |-> PlainPayload],
                [method |-> "POST", query |-> [arg |-> "value", foo |-> "bar"],
                 payload |-> [body |-> "BODY", headers |-> [Custom |-> "Header"]]]}

\* arguments of Response(...)
ResponseArgs == {[status |-> 200, reason |-> None, body |-> None, headers |-> EmptyDict],
                 [status |-> 404, reason |-> "Not Found", body |-> "foo",
                  headers |-> [Custom |-> "header"]]}

-----------------------------------------------------------------------------
(* dict and defaultdict(list) *)

Get(d, k) == IF k \in DOMAIN d THEN d[k] ELSE << >>

Put(d, k, v) ==
    IF v = << >>
    THEN [x \in DOMAIN d \ {k} |-> d[x]]
    ELSE [x \in DOMAIN d \cup {k} |-> IF x = k THEN v ELSE d[x]]

\* dict.update(other)
update(d, other) ==
    [x \in DOMAIN d \cup DOMAIN other |-> IF x \in DOMAIN other THEN other[x] ELSE d[x]]

-----------------------------------------------------------------------------
(* urllib.parse.quote and _quote_path *)

\* quote() never quotes letters, digits and "_.-~", nor its safe="/" default
AlwaysSafe == {"a", "b", "0", "2", "5", ".", "_", "-", "~"}

PercentEncode(c) ==
    CASE c = " " -> <<"%", "2", "0">>
      [] c = "%" -> <<"%", "2", "5">>
      [] c = ":" -> <<"%", "3", "A">>

RECURSIVE quote(_)
quote(s) ==
    IF s = << >> THEN << >>
    ELSE (IF Head(s) \in AlwaysSafe \cup {"/"} THEN <<Head(s)>> ELSE PercentEncode(Head(s)))
         \o quote(Tail(s))

RECURSIVE join(_, _)
join(sep, parts) ==
    IF parts = << >> THEN << >>
    ELSE IF Len(parts) = 1 THEN parts[1]
    ELSE parts[1] \o sep \o join(sep, Tail(parts))

\* _quote_path that prefixes '/' without looking at the joined path
_quote_path_always_prefixed(path) ==
    <<"/">> \o join(<<"/">>, [i \in 1..Len(path) |-> quote(path[i])])

_quote_path(path) ==
    LET path_str == join(<<"/">>, [i \in 1..Len(path) |-> quote(path[i])])
    IN  IF Len(path_str) > 0 /\ path_str[1] = "/" THEN path_str ELSE <<"/">> \o path_str

-----------------------------------------------------------------------------
(* Request and Response *)

Request(method, path) ==
    [method |-> method, resource |-> _quote_path(path), body |-> None,
     headers |-> EmptyDict, query |-> EmptyDict]

Response(status, reason, body, headers) ==
    [status |-> status,
     reason |-> IF reason = None \/ reason = "" THEN "Unspecified" ELSE reason,
     body |-> body,
     headers |-> headers]

Responses == {Response(a.status, a.reason, a.body, a.headers) : a \in ResponseArgs}

-----------------------------------------------------------------------------
(* Service.url_for and the request a client makes with it *)

host(p) == "127.0.0.1:" \o ToString(p)

\* sorted(query.items())
sorted_items(query) ==
    LET ks == SelectSeq(KeyOrder, LAMBDA k : k \in DOMAIN query)
    IN  [i \in 1..Len(ks) |-> <<ks[i], query[ks[i]]>>]

url_for(p, path, query) ==
    [scheme |-> "http", host |-> host(p), path |-> _quote_path(path),
     query |-> sorted_items(query)]

\* keyword arguments in the order the caller wrote them: <<name, value>> pairs
KwargLists == {<< >>,
               <<<<"foo", "bar">>>>,
               <<<<"arg", "a b">>, <<"foo", "bar">>>>,
               <<<<"foo", "bar">>, <<"arg", "a b">>>>}

\* the dict Python makes of keyword arguments
dict(pairs) == [n \in {pairs[i][1] : i \in 1..Len(pairs)} |->
                   (CHOOSE kv \in {pairs[i] : i \in 1..Len(pairs)} : kv[1] = n)[2]]

\* the position of a key in the order of str
rank(k) == CHOOSE i \in 1..Len(KeyOrder) : KeyOrder[i] = k

\* url_for without sorted(): the items in the order the dict yields them
unsorted(pairs) == pairs

RECURSIVE insort(_, _)
insort(pair, pairs) ==
    IF pairs = << >> THEN <<pair>>
    ELSE IF rank(pair[1]) <= rank(Head(pairs)[1]) THEN <<pair>> \o pairs
    ELSE <<Head(pairs)>> \o insort(pair, Tail(pairs))

\* sorted(query.items())
RECURSIVE sorted(_)
sorted(pairs) ==
    IF pairs = << >> THEN << >> ELSE insort(Head(pairs), sorted(Tail(pairs)))

\* urllib.parse.quote_plus of the names and values a test passes
quote_plus(v) == IF v = "a b" THEN "a+b" ELSE v

\* urllib.parse.urlencode of a list of pairs
RECURSIVE urlencode(_)
urlencode(pairs) ==
    IF pairs = << >> THEN ""
    ELSE quote_plus(Head(pairs)[1]) \o "=" \o quote_plus(Head(pairs)[2])
         \o (IF Tail(pairs) = << >> THEN "" ELSE "&" \o urlencode(Tail(pairs)))

\* a str of the characters of a path
RECURSIVE str(_)
str(chars) == IF chars = << >> THEN "" ELSE Head(chars) \o str(Tail(chars))

\* urllib.parse.urlunsplit((scheme, netloc, url, query, fragment))
urlunsplit(parts) ==
    parts[1] \o "://" \o parts[2] \o str(parts[3])
        \o (IF parts[4] = "" THEN "" ELSE "?" \o parts[4])
        \o (IF parts[5] = None THEN "" ELSE "#" \o parts[5])

\* tornado's HTTPRequest.query_arguments: name -> list of values
query_arguments(pairs) ==
    [n \in {pairs[i][1] : i \in 1..Len(pairs)} |->
        LET mine == SelectSeq(pairs, LAMBDA kv : kv[1] = n)
        IN  [i \in 1..Len(mine) |-> mine[i][2]]]

\* the tornado HTTPRequest of client.fetch(url, method=..., body=..., headers=...)
HTTPRequest(url, method, payload) ==
    [method |-> method, path |-> url.path,
     query_arguments |-> query_arguments(url.query),
     body |-> payload.body,
     headers |-> update(payload.headers, [Host |-> url.host])]

HTTPError(status_code, reason) ==
    [status |-> status_code, reason |-> reason, headers |-> EmptyDict, body |-> ""]

-----------------------------------------------------------------------------
(* _Application: routing *)

\* _Application.__init__: web.url('/', _ErrorHandler)
InitialRules == <<[pattern |-> <<"/">>, handler |-> "_ErrorHandler", service |-> NoService]>>

\* _Application.add_resource: rules.insert(-1, handler)
add_resource(rs, service, resource) ==
    LET handler == [pattern |-> resource, handler |-> "_ServiceHandler", service |-> service]
    IN  IF rs = << >> THEN <<handler>>
        ELSE SubSeq(rs, 1, Len(rs) - 1) \o <<handler>> \o <<rs[Len(rs)]>>

\* a route's pattern is a regular expression anchored at both ends; of the
\* characters quote() leaves alone only "." is special
RECURSIVE matches(_, _)
matches(pattern, path) ==
    IF pattern = << >> THEN path = << >>
    ELSE /\ path # << >>
         /\ Head(pattern) = "." \/ Head(pattern) = Head(path)
         /\ matches(Tail(pattern), Tail(path))

\* the first rule that matches the request's path, whatever socket it came in on
find_handler(rs, request) ==
    LET hits == {i \in 1..Len(rs) : matches(rs[i].pattern, request.path)}
    IN  IF hits = {} THEN 0 ELSE CHOOSE i \in hits : \A j \in hits : i <= j

-----------------------------------------------------------------------------
(* Service: the methods, as functions of the service's fields *)

\* record_request without the assertion: the first value of every key is taken
record_request_first_value(reqs, request) ==
    LET req == Request(request.method, <<request.path>>)
        args == request.query_arguments
    IN  [raised |-> FALSE,
         _requests |-> Put(reqs, request.path,
             Append(Get(reqs, request.path),
                    [req EXCEPT !.body = request.body,
                                !.headers = update(@, request.headers),
                                !.query = [n \in DOMAIN args |-> args[n][1]]]))]

\* record_request that keeps only the newest request of a path
record_request_latest_only(reqs, request) ==
    LET recorded == record_request_first_value(reqs, request)._requests
    IN  [raised |-> \E n \in DOMAIN request.query_arguments :
                        ~(Len(request.query_arguments[n]) < 2),
         _requests |-> IF \E n \in DOMAIN request.query_arguments :
                              ~(Len(request.query_arguments[n]) < 2)
                       THEN reqs
                       ELSE Put(reqs, request.path,
                                <<recorded[request.path][Len(recorded[request.path])]>>)]

\* Service.record_request: the new request log, or the failed assertion
record_request(reqs, request) ==
    LET req == Request(request.method, <<request.path>>)
        args == request.query_arguments
    IN  IF \E n \in DOMAIN args : ~(Len(args[n]) < 2)
        THEN [raised |-> TRUE, _requests |-> reqs]
        ELSE [raised |-> FALSE,
              _requests |-> Put(reqs, request.path,
                  Append(Get(reqs, request.path),
                         [req EXCEPT !.body = request.body,
                                     !.headers = update(@, request.headers),
                                     !.query = [n \in DOMAIN args |-> args[n][1]]]))]

\* get_next_response with pop() for pop(0): the newest response first
get_next_response_lifo(resps, tornado_request) ==
    LET key == <<tornado_request.method, tornado_request.path>>
        queue == Get(resps, key)
    IN  IF queue # << >>
        THEN [raised |-> FALSE, response |-> queue[Len(queue)],
              _responses |-> Put(resps, key, SubSeq(queue, 1, Len(queue) - 1))]
        ELSE [raised |-> TRUE, response |-> HTTPError(456, "Test Configuration Error"),
              _responses |-> resps]

\* get_next_response keyed by the path alone: with nothing queued for the method,
\* a response queued for another key is handed out
get_next_response_any(resps, tornado_request) ==
    LET key == <<tornado_request.method, tornado_request.path>>
        others == {k \in DOMAIN resps : k # key}
    IN  IF Get(resps, key) # << >>
        THEN [raised |-> FALSE, response |-> Head(Get(resps, key)),
              _responses |-> Put(resps, key, Tail(Get(resps, key)))]
        ELSE IF others # {}
        THEN LET k == CHOOSE k \in others : TRUE
             IN  [raised |-> FALSE, response |-> Head(resps[k]),
                  _responses |-> Put(resps, k, Tail(resps[k]))]
        ELSE [raised |-> TRUE, response |-> HTTPError(456, "Test Configuration Error"),
              _responses |-> resps]

\* get_next_response that reads the head of the queue and leaves it there
get_next_response_peek(resps, tornado_request) ==
    LET key == <<tornado_request.method, tornado_request.path>>
    IN  IF Get(resps, key) # << >>
        THEN [raised |-> FALSE, response |-> Head(Get(resps, key)), _responses |-> resps]
        ELSE [raised |-> TRUE, response |-> HTTPError(456, "Test Configuration Error"),
              _responses |-> resps]

\* Service.get_next_response: the response popped and the new queues, or HTTPError(456)
get_next_response(resps, tornado_request) ==
    LET key == <<tornado_request.method, tornado_request.path>>
    IN  IF Get(resps, key) # << >>
        THEN [raised |-> FALSE, response |-> Head(Get(resps, key)),
              _responses |-> Put(resps, key, Tail(Get(resps, key)))]
        ELSE [raised |-> TRUE, response |-> HTTPError(456, "Test Configuration Error"),
              _responses |-> resps]

\* get_requests_for without its else branch: nothing recorded yields nothing
get_requests_for_no_raise(reqs, path) ==
    [raised |-> FALSE, value |-> Get(reqs, _quote_path(path))]

\* Service.get_requests_for: the requests the generator yields, or AssertionError
get_requests_for(reqs, path) ==
    LET resource == _quote_path(path)
    IN  IF Get(reqs, resource) # << >>
        THEN [raised |-> FALSE, value |-> Get(reqs, resource)]
        ELSE [raised |-> TRUE, value |-> "AssertionError"]

\* Service.get_request: next(self.get_requests_for(*path))
get_request(reqs, path) ==
    LET gen == get_requests_for(reqs, path)
    IN  IF gen.raised THEN gen ELSE [raised |-> FALSE, value |-> gen.value[1]]

\* Service.assert_request
assert_request(reqs, method, path, query) ==
    LET resource == _quote_path(path)
        gen == get_requests_for(reqs, <<resource>>)
    IN  IF gen.raised THEN gen
        ELSE IF \E i \in 1..Len(gen.value) :
                    gen.value[i].method = method /\ gen.value[i].query = query
             THEN [raised |-> FALSE, value |-> None]
             ELSE [raised |-> TRUE, value |-> "AssertionError"]

\* _register_endpoint without the membership test: every call adds a route
_register_endpoint_always(endpoints, rs, service, path) ==
    [_endpoints |-> endpoints \cup {path}, rules |-> add_resource(rs, service, path)]

\* Service._register_endpoint: the new endpoint set and the application's new rules
_register_endpoint(endpoints, rs, service, path) ==
    IF path \notin endpoints
    THEN [_endpoints |-> endpoints \cup {path}, rules |-> add_resource(rs, service, path)]
    ELSE [_endpoints |-> endpoints, rules |-> rs]

-----------------------------------------------------------------------------
(* _ErrorHandler and _ServiceHandler *)

\* what _do_request writes for a programmed response
written(response) ==
    [status |-> response.status, reason |-> response.reason,
     headers |-> response.headers,
     body |-> IF response.body = None \/ response.body = "" THEN "" ELSE response.body]

\* the handler with the request recorded after the response is looked up, so that
\* the HTTPError(456) of get_next_response leaves it unrecorded
_ServiceHandler_lookup_first(reqs, resps, request) ==
    LET next == get_next_response(resps, request)
        recorded == record_request(reqs, request)
    IN  IF next.raised
        THEN [_requests |-> reqs, _responses |-> resps, recorded |-> FALSE,
              taken |-> << >>, response |-> next.response]
        ELSE [_requests |-> recorded._requests, _responses |-> next._responses,
              recorded |-> ~recorded.raised, taken |-> <<next.response>>,
              response |-> written(next.response)]

\* _ServiceHandler.prepare, then _ServiceHandler._do_request unless prepare raised
_ServiceHandler(reqs, resps, request) ==
    LET prepared == record_request(reqs, request)
        next == get_next_response(resps, request)
    IN  IF prepared.raised
        THEN [_requests |-> reqs, _responses |-> resps, recorded |-> FALSE,
              taken |-> << >>, response |-> HTTPError(500, "Internal Server Error")]
        ELSE [_requests |-> prepared._requests, _responses |-> next._responses,
              recorded |-> TRUE,
              taken |-> IF next.raised THEN << >> ELSE <<next.response>>,
              response |-> IF next.raised THEN next.response ELSE written(next.response)]

\* _ErrorHandler.prepare
_ErrorHandler == HTTPError(456, "Unexpected Request")

\* tornado's answer when no rule matches the path
NotFound == HTTPError(404, "Not Found")

-----------------------------------------------------------------------------
(* ServiceLayer *)

\* get_service without the lookup: every call makes a new Service
lookup_miss(services, service) == NoService

\* the try: self._services[service] / except KeyError of get_service
lookup(services, service) == services[service]

Live == DOMAIN name_of

-----------------------------------------------------------------------------
(* glinda.content: bytes, text and the codecs of str.encode / bytes.decode  *)
(* A text is a sequence of characters, each named by a string; bytes are a   *)
(* sequence of numbers below 256.                                            *)

\* the characters a test puts in a body: ASCII, Latin-1 and one beyond Latin-1
Ascii == [a |-> 97, n |-> 110, u |-> 117, l |-> 108, quot |-> 34, backslash |-> 92,
          e |-> 101, c |-> 99] @@
         ("0" :> 48) @@ ("1" :> 49) @@ ("3" :> 51) @@ ("8" :> 56) @@ ("9" :> 57)
Latin1 == [eacute |-> 233, Atilde |-> 195, copyright |-> 169]
Hangul == "U+C138"

\* codecs.lookup: the names Python knows the two codecs by
Charsets == [latin1 |-> "latin-1", utf8 |-> "utf-8"] @@ ("utf-8" :> "utf-8")

UnicodeEncodeError == [type |-> "UnicodeEncodeError"]
UnicodeDecodeError == [type |-> "UnicodeDecodeError"]
LookupError == [type |-> "LookupError"]
TypeError == [type |-> "TypeError"]
ValueError == [type |-> "ValueError"]

\* the exceptions that are a ValueError: what `except ValueError` catches
IsValueError(error) ==
    error.type \in {"ValueError", "UnicodeDecodeError", "UnicodeEncodeError"}

Ok(value) == [raised |-> FALSE, value |-> value]
Raise(error) == [raised |-> TRUE, value |-> error]

\* ord(c): the code point of a character
ord(c) ==
    IF c \in DOMAIN Ascii THEN Ascii[c]
    ELSE IF c \in DOMAIN Latin1 THEN Latin1[c]
    ELSE IF c = Hangul THEN 49464
    ELSE CHOOSE b \in 0..255 : c = "x" \o ToString(b)

\* chr(i): the character of a code point
chr(i) ==
    IF \E c \in DOMAIN Ascii : Ascii[c] = i THEN CHOOSE c \in DOMAIN Ascii : Ascii[c] = i
    ELSE IF \E c \in DOMAIN Latin1 : Latin1[c] = i
    THEN CHOOSE c \in DOMAIN Latin1 : Latin1[c] = i
    ELSE IF i = 49464 THEN Hangul
    ELSE "x" \o ToString(i)

\* one character as bytes
encode_char(c, codec) ==
    IF ord(c) < 128 THEN Ok(<<ord(c)>>)
    ELSE IF codec = "latin-1"
    THEN (IF ord(c) < 256 THEN Ok(<<ord(c)>>) ELSE Raise(UnicodeEncodeError))
    ELSE IF ord(c) < 2048
    THEN Ok(<<192 + (ord(c) \div 64), 128 + (ord(c) % 64)>>)
    ELSE Ok(<<224 + (ord(c) \div 4096), 128 + ((ord(c) \div 64) % 64), 128 + (ord(c) % 64)>>)

RECURSIVE encode_chars(_, _)
encode_chars(text, codec) ==
    IF text = << >> THEN Ok(<< >>)
    ELSE LET first == encode_char(Head(text), codec)
             rest == encode_chars(Tail(text), codec)
         IN  IF first.raised THEN first
             ELSE IF rest.raised THEN rest
             ELSE Ok(first.value \o rest.value)

\* str.encode that writes UTF-8 when it does not know the encoding
encode_unknown_as_utf8(text, encoding) ==
    IF encoding \notin DOMAIN Charsets THEN encode_chars(text, "utf-8")
    ELSE encode_chars(text, Charsets[encoding])

\* str.encode(encoding)
encode(text, encoding) ==
    IF encoding \notin DOMAIN Charsets THEN Raise(LookupError)
    ELSE encode_chars(text, Charsets[encoding])

\* the character of a byte in Latin-1: every byte is one
latin1_char(b) == chr(b)

\* a continuation byte of UTF-8
continues(bytes, i) == Len(bytes) >= i /\ bytes[i] >= 128 /\ bytes[i] < 192

\* the bytes as UTF-8 text of one, two and three byte sequences
RECURSIVE decode_utf8(_)
decode_utf8(bytes) ==
    IF bytes = << >> THEN Ok(<< >>)
    ELSE LET width == IF Head(bytes) < 128 THEN 1
                      ELSE IF Head(bytes) >= 194 /\ Head(bytes) < 224 /\ continues(bytes, 2)
                      THEN 2
                      ELSE IF /\ Head(bytes) >= 224 /\ Head(bytes) < 240
                              /\ continues(bytes, 2) /\ continues(bytes, 3)
                              /\ (Head(bytes) = 224 => bytes[2] >= 160)
                              /\ (Head(bytes) = 237 => bytes[2] < 160)
                      THEN 3
                      ELSE 0
             code == CASE width = 1 -> bytes[1]
                       [] width = 2 -> (bytes[1] - 192) * 64 + (bytes[2] - 128)
                       [] width = 3 -> (bytes[1] - 224) * 4096 + (bytes[2] - 128) * 64
                                           + (bytes[3] - 128)
             rest == decode_utf8(SubSeq(bytes, width + 1, Len(bytes)))
         IN  IF width = 0 THEN Raise(UnicodeDecodeError)
             ELSE IF rest.raised THEN rest
             ELSE Ok(<<chr(code)>> \o rest.value)

\* bytes.decode that reads UTF-8 whatever encoding it is given
decode_as_utf8(bytes, encoding) ==
    IF encoding = None THEN Raise(TypeError)
    ELSE IF encoding \notin DOMAIN Charsets THEN Raise(LookupError)
    ELSE decode_utf8(bytes)

\* bytes.decode(encoding)
decode(bytes, encoding) ==
    IF encoding = None THEN Raise(TypeError)
    ELSE IF encoding \notin DOMAIN Charsets THEN Raise(LookupError)
    ELSE IF Charsets[encoding] = "latin-1"
    THEN Ok([i \in 1..Len(bytes) |-> latin1_char(bytes[i])])
    ELSE decode_utf8(bytes)

-----------------------------------------------------------------------------
(* glinda.content: the dump and load hooks a type is registered with        *)

\* Python values a body stands for: None and a str
NoneValue == [type |-> "NoneType"]
StrValue(text) == [type |-> "str", value |-> text]
BytesValue(bytes) == [type |-> "bytes", value |-> bytes]

\* the \uXXXX escapes of JSON for the characters beyond ASCII
Escapes == [eacute |-> <<"backslash", "u", "0", "0", "e", "9">>,
            Atilde |-> <<"backslash", "u", "0", "0", "c", "3">>,
            copyright |-> <<"backslash", "u", "0", "0", "a", "9">>] @@
           (Hangul :> <<"backslash", "u", "c", "1", "3", "8">>)

\* a JSON string's characters with everything beyond ASCII escaped
RECURSIVE escaped(_)
escaped(text) ==
    IF text = << >> THEN << >>
    ELSE (IF Head(text) \in DOMAIN Escapes THEN Escapes[Head(text)] ELSE <<Head(text)>>)
             \o escaped(Tail(text))

\* the characters a JSON string's body stands for, or ValueError
RECURSIVE unescaped(_)
unescaped(s) ==
    IF s = << >> THEN Ok(<< >>)
    ELSE IF Head(s) = "quot" THEN Raise(ValueError)
    ELSE IF Head(s) # "backslash"
    THEN LET rest == unescaped(Tail(s))
         IN  IF rest.raised THEN rest ELSE Ok(<<Head(s)>> \o rest.value)
    ELSE IF Len(s) < 6 \/ ~\E ch \in DOMAIN Escapes : SubSeq(s, 1, 6) = Escapes[ch]
    THEN Raise(ValueError)
    ELSE LET ch == CHOOSE ch \in DOMAIN Escapes : SubSeq(s, 1, 6) = Escapes[ch]
             rest == unescaped(SubSeq(s, 7, Len(s)))
         IN  IF rest.raised THEN rest ELSE Ok(<<ch>> \o rest.value)

\* json.dumps(obj): ensure_ascii is on unless the caller turns it off
json_dumps(obj) ==
    IF obj = NoneValue THEN <<"n", "u", "l", "l">>
    ELSE <<"quot">> \o escaped(obj.value) \o <<"quot">>

\* json.dumps(obj, ensure_ascii=False)
json_dumps_unicode(obj) ==
    IF obj = NoneValue THEN <<"n", "u", "l", "l">>
    ELSE <<"quot">> \o obj.value \o <<"quot">>

\* json.loads(s): ValueError unless s is null or a string in quotes
json_loads(s) ==
    IF s = <<"n", "u", "l", "l">> THEN Ok(NoneValue)
    ELSE IF Len(s) >= 2 /\ s[1] = "quot" /\ s[Len(s)] = "quot"
    THEN LET text == unescaped(SubSeq(s, 2, Len(s) - 1))
         IN  IF text.raised THEN text ELSE Ok(StrValue(text.value))
    ELSE Raise(ValueError)

\* msgpack.packb(obj): nil, or a fixstr of the UTF-8 bytes
msgpack_packb(obj) ==
    IF obj = NoneValue THEN <<192>>
    ELSE <<160 + Len(encode_chars(obj.value, "utf-8").value)>>
             \o encode_chars(obj.value, "utf-8").value

\* msgpack.unpackb(packed): the raw bytes of a fixstr, or nil
msgpack_unpackb(packed) ==
    IF packed = <<192>> THEN Ok(NoneValue)
    ELSE IF /\ packed # << >>
            /\ Head(packed) >= 160
            /\ Head(packed) < 192
            /\ Len(packed) - 1 = Head(packed) - 160
         THEN Ok(BytesValue(Tail(packed)))
         ELSE Raise(ValueError)

\* tornado.escape.recursive_unicode
recursive_unicode(obj) ==
    IF obj.type = "bytes"
    THEN LET text == decode(obj.value, "utf-8")
         IN  IF text.raised THEN text ELSE Ok(StrValue(text.value))
    ELSE Ok(obj)

-----------------------------------------------------------------------------
(* glinda.content._ContentHandler *)

\* _ContentHandler.__init__
_ContentHandler(content_type) ==
    [content_type |-> content_type,
     dict_to_string |-> None, string_to_dict |-> None,
     dict_to_bytes |-> None, bytes_to_dict |-> None,
     default_encoding |-> None]

AssertionError == [type |-> "AssertionError"]

\* calling a hook: the hooks are known by the names they were registered under
call(hook, arg) ==
    CASE hook = "json.dumps" -> Ok(json_dumps(arg))
      [] hook = "json.dumps ensure_ascii=False" -> Ok(json_dumps_unicode(arg))
      [] hook = "json.loads" -> json_loads(arg)
      [] hook = "msgpack.packb" -> Ok(msgpack_packb(arg))
      [] hook = "msgpack.unpackb" -> msgpack_unpackb(arg)

\* a or b
or(a, b) == IF a = None \/ a = "" THEN b ELSE a

\* unpack_bytes that decodes with the default encoding whatever the request says
unpack_bytes_default_only(self, obj_bytes, encoding) ==
    IF self.bytes_to_dict # None
    THEN LET loaded == call(self.bytes_to_dict, obj_bytes)
         IN  IF loaded.raised THEN loaded ELSE recursive_unicode(loaded.value)
    ELSE LET text == decode(obj_bytes, self.default_encoding)
         IN  IF text.raised THEN text ELSE call(self.string_to_dict, text.value)

\* _ContentHandler.unpack_bytes: the value, or the exception raised
unpack_bytes(self, obj_bytes, encoding) ==
    IF self.bytes_to_dict = None /\ self.string_to_dict = None
    THEN Raise(AssertionError)
    ELSE IF self.bytes_to_dict # None
    THEN LET loaded == call(self.bytes_to_dict, obj_bytes)
         IN  IF loaded.raised THEN loaded ELSE recursive_unicode(loaded.value)
    ELSE LET text == decode(obj_bytes, or(encoding, self.default_encoding))
         IN  IF text.raised THEN text ELSE call(self.string_to_dict, text.value)

\* web.HTTPError(status_code, reason=...)
WebHTTPError(status_code, reason) ==
    [type |-> "HTTPError", status_code |-> status_code, reason |-> reason]

\* pack_bytes without the second attempt in UTF-8
pack_bytes_without_fallback(self, obj_dict, encoding) ==
    IF self.dict_to_bytes # None
    THEN Ok(<<None, call(self.dict_to_bytes, obj_dict).value>>)
    ELSE LET enc == or(or(encoding, self.default_encoding), "utf-8")
             encoded == encode(call(self.dict_to_string, obj_dict).value, enc)
         IN  IF ~encoded.raised THEN Ok(<<enc, encoded.value>>)
             ELSE IF encoded.value = LookupError
             THEN Raise(WebHTTPError(406, "target charset " \o enc \o " not found"))
             ELSE encoded

\* pack_bytes that names the encoding it was asked for, whichever one it used
pack_bytes_naming_requested(self, obj_dict, encoding) ==
    IF self.dict_to_bytes # None
    THEN Ok(<<None, call(self.dict_to_bytes, obj_dict).value>>)
    ELSE LET enc == or(or(encoding, self.default_encoding), "utf-8")
             text == call(self.dict_to_string, obj_dict).value
             encoded == encode(text, enc)
         IN  IF ~encoded.raised THEN Ok(<<enc, encoded.value>>)
             ELSE IF encoded.value = LookupError
             THEN Raise(WebHTTPError(406, "target charset " \o enc \o " not found"))
             ELSE Ok(<<enc, encode(text, "utf-8").value>>)

\* pack_bytes that prefers the text dumper to the binary one
pack_bytes_text_first(self, obj_dict, encoding) ==
    IF self.dict_to_bytes = None /\ self.dict_to_string = None
    THEN Raise(AssertionError)
    ELSE IF self.dict_to_string = None
    THEN Ok(<<None, call(self.dict_to_bytes, obj_dict).value>>)
    ELSE LET enc == or(or(encoding, self.default_encoding), "utf-8")
             text == call(self.dict_to_string, obj_dict).value
             encoded == encode(text, enc)
         IN  IF ~encoded.raised THEN Ok(<<enc, encoded.value>>)
             ELSE IF encoded.value = LookupError
             THEN Raise(WebHTTPError(406, "target charset " \o enc \o " not found"))
             ELSE Ok(<<"utf-8", encode(text, "utf-8").value>>)

\* _ContentHandler.pack_bytes: (encoding, bytes), or the exception raised
pack_bytes(self, obj_dict, encoding) ==
    IF self.dict_to_bytes = None /\ self.dict_to_string = None
    THEN Raise(AssertionError)
    ELSE IF self.dict_to_bytes # None
    THEN Ok(<<None, call(self.dict_to_bytes, obj_dict).value>>)
    ELSE LET enc == or(or(encoding, self.default_encoding), "utf-8")
             text == call(self.dict_to_string, obj_dict).value
             encoded == encode(text, enc)
         IN  IF ~encoded.raised THEN Ok(<<enc, encoded.value>>)
             ELSE IF encoded.value = LookupError
             THEN Raise(WebHTTPError(406, "target charset " \o enc \o " not found"))
             ELSE Ok(<<"utf-8", encode(text, "utf-8").value>>)

-----------------------------------------------------------------------------
(* ietfparse, as glinda.content uses it *)

\* datastructures.ContentType as a value: its parameters are a dict of its own
ContentTypeValue(content_type, content_subtype, parameters) ==
    [content_type |-> content_type, content_subtype |-> content_subtype,
     parameters |-> parameters]

\* headers.parse_content_type, for the header values a client sends
parse_content_type(header) ==
    CASE header = "application/json" -> ContentTypeValue("application", "json", EmptyDict)
      [] header = "application/json; charset=latin1"
             -> ContentTypeValue("application", "json", [charset |-> "latin1"])
      [] header = "application/json; charset=utf-8"
             -> ContentTypeValue("application", "json", [charset |-> "utf-8"])
      [] header = "application/json; charset=utf8"
             -> ContentTypeValue("application", "json", [charset |-> "utf8"])
      [] header = "application/json; charset=foo"
             -> ContentTypeValue("application", "json", [charset |-> "foo"])
      [] header = "application/msgpack"
             -> ContentTypeValue("application", "msgpack", EmptyDict)
      [] header = "application/msgpack; q=0.5"
             -> ContentTypeValue("application", "msgpack", [q |-> "0.5"])
      [] header = "application/xml" -> ContentTypeValue("application", "xml", EmptyDict)
      [] header = "plain/text" -> ContentTypeValue("plain", "text", EmptyDict)
      [] header = "application/octet-stream"
             -> ContentTypeValue("application", "octet-stream", EmptyDict)
      [] header = "*/*" -> ContentTypeValue("*", "*", EmptyDict)

\* a pattern of an Accept header: a content type with a quality, in tenths
Accepted(header, quality) ==
    [content_type |-> parse_content_type(header).content_type,
     content_subtype |-> parse_content_type(header).content_subtype,
     parameters |-> parse_content_type(header).parameters,
     quality |-> quality]

\* an Accept parser that reads every header as */*
parse_http_accept_header_any(header) == <<Accepted("*/*", 10)>>

\* headers.parse_http_accept_header, for the header values a client sends
parse_http_accept_header(header) ==
    CASE header = "*/*" -> <<Accepted("*/*", 10)>>
      [] header = "application/json" -> <<Accepted("application/json", 10)>>
      [] header = "application/msgpack" -> <<Accepted("application/msgpack", 10)>>
      [] header = "application/xml" -> <<Accepted("application/xml", 10)>>
      [] header = "plain/text" -> <<Accepted("plain/text", 10)>>
      [] header = "application/json, */*;q=0.1"
             -> <<Accepted("application/json", 10), Accepted("*/*", 1)>>
      [] header = "*/*;q=0.1, application/msgpack"
             -> <<Accepted("application/msgpack", 10), Accepted("*/*", 1)>>

\* headers.parse_accept_charset, for the header values a client sends
parse_accept_charset(header) ==
    CASE header = "*" -> <<"*">>
      [] header = "utf8" -> <<"utf8">>
      [] header = "latin1" -> <<"latin1">>
      [] header = "foo" -> <<"foo">>
      [] header = "latin1, *;q=0.1" -> <<"latin1", "*">>

\* str(content_type): the parameters follow the type, sorted by name
content_type_str(content_type) ==
    content_type.content_type \o "/" \o content_type.content_subtype
        \o (IF "charset" \in DOMAIN content_type.parameters
            THEN "; charset=" \o content_type.parameters.charset ELSE "")
        \o (IF "q" \in DOMAIN content_type.parameters
            THEN "; q=" \o content_type.parameters.q ELSE "")

\* getattr(obj, 'quality', 1.0)
extract_quality(obj) == IF "quality" \in DOMAIN obj THEN obj.quality ELSE 10

\* algorithms._content_type_matches
_content_type_matches(candidate, pattern) ==
    /\ pattern.content_type = "*" \/ candidate.content_type = pattern.content_type
    /\ pattern.content_subtype = "*" \/ candidate.content_subtype = pattern.content_subtype

\* ContentType.__eq__
content_type_eq(a, b) ==
    /\ a.content_type = b.content_type
    /\ a.content_subtype = b.content_subtype
    /\ a.parameters = b.parameters

\* Match.match_type: FULL_TYPE 0, PARTIAL 1, WILDCARD 2
match_type(pattern) ==
    IF pattern.content_type = "*" /\ pattern.content_subtype = "*" THEN 2
    ELSE IF pattern.content_subtype = "*" THEN 1
    ELSE 0

\* Match.parameter_distance
parameter_distance(candidate, pattern) ==
    LET shared == DOMAIN candidate.parameters \cap DOMAIN pattern.parameters
        same == {k \in shared : candidate.parameters[k] = pattern.parameters[k]}
    IN  Cardinality(DOMAIN candidate.parameters) - Cardinality(same)
            + Cardinality(shared \ same)

\* sorted(requested, key=extract_quality, reverse=True): stable
RECURSIVE insort_quality(_, _)
insort_quality(pattern, patterns) ==
    IF patterns = << >> THEN <<pattern>>
    ELSE IF extract_quality(pattern) >= extract_quality(Head(patterns))
    THEN <<pattern>> \o patterns
    ELSE <<Head(patterns)>> \o insort_quality(pattern, Tail(patterns))

RECURSIVE sorted_by_quality(_)
sorted_by_quality(requested) ==
    IF requested = << >> THEN << >>
    ELSE insort_quality(Head(requested), sorted_by_quality(Tail(requested)))

\* the registered content types in the order of str
TypeOrder == <<"application/json", "application/msgpack">>

\* sorted(available): the registry's objects, each known by its key
sorted_available(available) == SelectSeq(TypeOrder, LAMBDA k : k \in DOMAIN available)

NoMatch == [type |-> "NoMatch"]

\* select_content_type that settles for a registered type when none matches
select_content_type_or_any(requested, available) ==
    IF DOMAIN available = {} THEN Raise(NoMatch)
    ELSE LET first == sorted_available(available)[1]
             wanted == {i \in 1..Len(requested) :
                           \E k \in DOMAIN available :
                               _content_type_matches(available[k], requested[i])}
         IN  IF wanted = {}
             THEN Ok([selected |-> first, requested |-> requested[1]])
             ELSE LET k == CHOOSE k \in DOMAIN available : \E i \in wanted :
                                _content_type_matches(available[k], requested[i])
                  IN  Ok([selected |-> k, requested |-> requested[1]])

\* select_content_type that keeps the last match it comes across
select_content_type_last_match(requested, available) ==
    LET patterns == sorted_by_quality(requested)
        candidates == sorted_available(available)
        n == Len(candidates)
        pairs == [i \in 1..(Len(patterns) * n) |->
                     [candidate |-> candidates[((i - 1) % n) + 1],
                      pattern |-> patterns[((i - 1) \div n) + 1]]]
        matched == SelectSeq(pairs, LAMBDA m :
                       _content_type_matches(available[m.candidate], m.pattern))
    IN  IF matched = << >> THEN Raise(NoMatch)
        ELSE Ok([selected |-> matched[Len(matched)].candidate,
                 requested |-> matched[Len(matched)].pattern])

\* the (candidate, pattern) pairs that match, in the order the loops of
\* select_content_type come across them
_matching(available, patterns, candidates) ==
    SelectSeq([i \in 1..(Len(patterns) * Len(candidates)) |->
                  [candidate |-> candidates[((i - 1) % Len(candidates)) + 1],
                   pattern |-> patterns[((i - 1) \div Len(candidates)) + 1]]],
              LAMBDA m : _content_type_matches(available[m.candidate], m.pattern))

\* sorted(matches, key=attrgetter('match_type', 'parameter_distance'))[0]
_best(available, matched) ==
    LET key(m) == <<match_type(m.pattern),
                    parameter_distance(available[m.candidate], m.pattern)>>
        less(a, b) == a[1] < b[1] \/ (a[1] = b[1] /\ a[2] < b[2])
    IN  matched[CHOOSE i \in 1..Len(matched) :
                    /\ \A j \in 1..Len(matched) : ~less(key(matched[j]), key(matched[i]))
                    /\ \A j \in 1..(i - 1) : less(key(matched[i]), key(matched[j]))]

\* select_content_type given the matching pairs and the exact ones among them
_select(available, matched, exact) ==
    IF exact # << >>
    THEN (IF extract_quality(exact[1].pattern) = 0 THEN Raise(NoMatch)
          ELSE Ok([selected |-> exact[1].candidate, requested |-> exact[1].pattern]))
    ELSE IF matched = << >> THEN Raise(NoMatch)
    ELSE Ok([selected |-> _best(available, matched).candidate,
             requested |-> _best(available, matched).pattern])

\* the matching pairs whose candidate equals the pattern
_exact(available, matched) ==
    SelectSeq(matched, LAMBDA m : content_type_eq(available[m.candidate], m.pattern))

\* select_content_type given the matching pairs
_select_from(available, matched) == _select(available, matched, _exact(available, matched))

\* algorithms.select_content_type: (selected, requested), selected being the
\* key of the registry's own object, or NoMatch
select_content_type(requested, available) ==
    _select_from(available,
        _matching(available, sorted_by_quality(requested), sorted_available(available)))

-----------------------------------------------------------------------------
(* glinda.content: the registry and HandlerMixin *)

\* the hooks of a registration
TextHooks == [dumper |-> "json.dumps", loader |-> "json.loads"]
UnicodeDumper == "json.dumps ensure_ascii=False"
BinaryHooks == [dumper |-> "msgpack.packb", loader |-> "msgpack.unpackb"]

\* a registration that leaves the parameters in place
not_cleared(content_type) == content_type

\* content_type.parameters.clear()
cleared(content_type) == [content_type EXCEPT !.parameters = EmptyDict]

\* dict.setdefault(key, default)
setdefault(d, key, default) == IF key \in DOMAIN d THEN d[key] ELSE default

\* register_text_type: the new _content_types and _content_handlers
register_text_type(types, handlers, content_type, default_encoding, dumper, loader) ==
    LET parsed == cleared(parse_content_type(content_type))
        key == content_type_str(parsed)
        handler == setdefault(handlers, key, _ContentHandler(key))
    IN  [_content_types |-> update(types, key :> parsed),
         _content_handlers |-> update(handlers, key :>
             [handler EXCEPT !.dict_to_string = dumper,
                             !.string_to_dict = loader,
                             !.default_encoding = or(default_encoding, @)])]

\* register_binary_type that makes a new handler for the type each time
register_binary_type_anew(types, handlers, content_type, dumper, loader) ==
    LET parsed == cleared(parse_content_type(content_type))
        key == content_type_str(parsed)
    IN  [_content_types |-> update(types, key :> parsed),
         _content_handlers |-> update(handlers, key :>
             [_ContentHandler(key) EXCEPT !.dict_to_bytes = dumper,
                                          !.bytes_to_dict = loader])]

\* register_binary_type: the new _content_types and _content_handlers
register_binary_type(types, handlers, content_type, dumper, loader) ==
    LET parsed == cleared(parse_content_type(content_type))
        key == content_type_str(parsed)
        handler == setdefault(handlers, key, _ContentHandler(key))
    IN  [_content_types |-> update(types, key :> parsed),
         _content_handlers |-> update(handlers, key :>
             [handler EXCEPT !.dict_to_bytes = dumper, !.bytes_to_dict = loader])]

\* clear_handlers that forgets the types and keeps their handlers
clear_handlers_types_only(types, handlers) ==
    [_content_types |-> EmptyDict, _content_handlers |-> handlers]

\* clear_handlers: the new _content_types and _content_handlers
clear_handlers(types, handlers) ==
    [_content_types |-> EmptyDict, _content_handlers |-> EmptyDict]

\* the orders in which a dict may yield its keys
Orders(keys) ==
    {order \in [1..Cardinality(keys) -> keys] :
         \A i, j \in 1..Cardinality(keys) : i # j => order[i] # order[j]}

\* HandlerMixin.registered_content_types, iterated to the end: the keys of
\* _content_types in each order the dict may yield them
registered_content_types(types) == Orders(DOMAIN types)

\* dict.get(key, default) of the request's headers
header(request, name, default) ==
    IF name \in DOMAIN request.headers THEN request.headers[name] ELSE default

KeyError == [type |-> "KeyError"]

\* get_request_body once unpack_bytes has returned or raised
_unpacked(body) ==
    IF ~body.raised
    THEN [raised |-> FALSE, value |-> body.value,
          _request_body |-> body.value, selected |-> 1, decoded |-> 1]
    ELSE [raised |-> TRUE,
          value |-> IF IsValueError(body.value)
                    THEN WebHTTPError(400, "Content body decode failure")
                    ELSE body.value,
          _request_body |-> NoneValue, selected |-> 1, decoded |-> 1]

\* get_request_body once select_content_type has returned or raised
_decode_selected(self, types, handlers, content_type, choice) ==
    IF choice.raised
    THEN [raised |-> TRUE, value |-> WebHTTPError(415, "Unexpected content type"),
          _request_body |-> NoneValue, selected |-> 1, decoded |-> 0]
    ELSE IF content_type_str(types[choice.value.selected]) \notin DOMAIN handlers
    THEN [raised |-> TRUE, value |-> KeyError,
          _request_body |-> NoneValue, selected |-> 1, decoded |-> 0]
    ELSE _unpacked(unpack_bytes(handlers[content_type_str(types[choice.value.selected])],
                                self.request.body,
                                IF "charset" \in DOMAIN content_type.parameters
                                THEN content_type.parameters.charset ELSE None))

\* get_request_body with nothing cached, the Content-Type header parsed
_decode_as(self, types, handlers, content_type) ==
    _decode_selected(self, types, handlers, content_type,
                     select_content_type(<<content_type>>, types))

\* HandlerMixin.get_request_body: what it returns or raises, the new
\* _request_body, and whether it ran selection and the decoder
get_request_body(self, types, handlers) ==
    IF self._request_body # NoneValue
    THEN [raised |-> FALSE, value |-> self._request_body,
          _request_body |-> self._request_body, selected |-> 0, decoded |-> 0]
    ELSE _decode_as(self, types, handlers,
             parse_content_type(header(self.request, "Content-Type",
                                       "application/octet-stream")))

\* ContentType(...) that keeps the dict it is given as its parameters
ContentType_sharing_parameters(dicts, content_type, content_subtype, parameters) ==
    [content_type |-> content_type, content_subtype |-> content_subtype,
     parameters |-> parameters, dicts |-> dicts]

\* datastructures.ContentType(content_type, content_subtype, parameters) where
\* parameters is a dict held elsewhere: dicts maps each dict object to its
\* items, and the new object's parameters are a dict of its own
ContentType(dicts, content_type, content_subtype, parameters) ==
    [content_type |-> content_type, content_subtype |-> content_subtype,
     parameters |-> "copied", dicts |-> update(dicts, "copied" :> dicts[parameters])]

\* send_response left by an exception: nothing set, nothing written
_raised(self, types, error) ==
    [raised |-> TRUE, value |-> error, _headers |-> self._headers,
     _write_buffer |-> self._write_buffer, _content_types |-> types]

\* self.set_header('Content-Type', str(selected)); self.write(response_bytes),
\* dicts being the parameters of the registry's ContentType objects by now
_set_header_and_write(self, types, content_type, dicts, response_bytes) ==
    [raised |-> FALSE, value |-> None,
     _headers |-> update(self._headers, "Content-Type" :> content_type_str(content_type)),
     _write_buffer |-> Append(self._write_buffer, response_bytes),
     _content_types |-> [k \in DOMAIN types |-> [types[k] EXCEPT !.parameters = dicts[k]]]]

\* copied.parameters['charset'] = encoding; selected = copied
_with_charset(self, types, copied, encoding, response_bytes) ==
    _set_header_and_write(self, types,
        [content_type |-> copied.content_type,
         content_subtype |-> copied.content_subtype,
         parameters |-> update(copied.dicts[copied.parameters], [charset |-> encoding])],
        [copied.dicts EXCEPT ![copied.parameters] = update(@, [charset |-> encoding])],
        response_bytes)

\* send_response once pack_bytes has returned or raised
_packed(self, types, selected, packed) ==
    IF packed.raised THEN _raised(self, types, packed.value)
    ELSE IF packed.value[1] # None
    THEN _with_charset(self, types,
             ContentType([k \in DOMAIN types |-> types[k].parameters],
                         types[selected].content_type,
                         types[selected].content_subtype, selected),
             packed.value[1], packed.value[2])
    ELSE _set_header_and_write(self, types, types[selected],
                               [k \in DOMAIN types |-> types[k].parameters],
                               packed.value[2])

\* send_response once the content type is selected: the handler is looked up
\* and packs the response in the first charset of Accept-Charset, if it names one
_selected(self, types, handlers, response_dict, selected, charsets) ==
    IF content_type_str(types[selected]) \notin DOMAIN handlers
    THEN _raised(self, types, KeyError)
    ELSE _packed(self, types, selected,
                 pack_bytes(handlers[content_type_str(types[selected])], response_dict,
                            IF charsets[1] # "*" THEN charsets[1] ELSE None))

\* send_response once select_content_type has returned or raised
_negotiated(self, types, handlers, response_dict, choice) ==
    IF choice.raised
    THEN _raised(self, types, WebHTTPError(406, "Content Type Not Acceptable"))
    ELSE _selected(self, types, handlers, response_dict, choice.value.selected,
                   parse_accept_charset(header(self.request, "Accept-Charset", "*")))

\* HandlerMixin.send_response: what it raises, if anything, the headers it set,
\* the bytes it wrote and the registry's ContentType objects afterwards
send_response(self, types, handlers, response_dict) ==
    _negotiated(self, types, handlers, response_dict,
        select_content_type(
            parse_http_accept_header(header(self.request, "Accept", "*/*")), types))

-----------------------------------------------------------------------------
(* examples/contentneg.py: RFC2295Handler *)

\* ', '.join(parts)
RECURSIVE join_str(_, _)
join_str(sep, parts) ==
    IF parts = << >> THEN ""
    ELSE IF Len(parts) = 1 THEN parts[1]
    ELSE parts[1] \o sep \o join_str(sep, Tail(parts))

\* headers.parse_list_header, for the Negotiate headers a client sends
parse_list_header(value) ==
    CASE value = "" -> << >>
      [] value = "vlist" -> <<"vlist">>
      [] value = "trans" -> <<"trans">>
      [] value = "trans, vlist" -> <<"trans", "vlist">>

\* '{{"{0}" 1.0 {{type {1}}}}}'.format(uri, content_type)
variant(uri, content_type) ==
    "{\"" \o uri \o "\" 1.0 {type " \o content_type \o "}}"

\* the web.RequestHandler of a request, before prepare
RequestHandler(request) ==
    [request |-> request, _request_body |-> NoneValue,
     _status_code |-> 200, _reason |-> "OK",
     _headers |-> EmptyDict, _write_buffer |-> << >>, _finished |-> FALSE]

\* RFC2295Handler.prepare, the registry yielding its types as content_types
RFC2295Handler_prepare(self, content_types) ==
    IF \E i \in DOMAIN parse_list_header(header(self.request, "Negotiate", "")) :
           parse_list_header(header(self.request, "Negotiate", ""))[i] = "vlist"
    THEN [self EXCEPT !._headers = update(@,
             [Alternatives |-> join_str(", ",
                  [i \in DOMAIN content_types |-> variant(self.request.uri, content_types[i])]),
              TCN |-> "list"])]
    ELSE self

\* what the client gets when tornado finishes the request
finish(self) ==
    [status |-> self._status_code, reason |-> self._reason,
     headers |-> self._headers, body |-> self._write_buffer]

\* what the client gets for an exception that leaves the handler: send_error
\* clears the headers set so far
send_error(error) ==
    IF error.type = "HTTPError"
    THEN [status |-> error.status_code, reason |-> error.reason,
          headers |-> EmptyDict, body |-> << >>]
    ELSE [status |-> 500, reason |-> "Internal Server Error",
          headers |-> EmptyDict, body |-> << >>]

\* a send_response that lets the HTTPError(406) of the mixin pass
RFC2295Handler_send_response_uncaught(self, sent) ==
    IF sent.raised
    THEN send_error(sent.value)
    ELSE finish([self EXCEPT !._headers = sent._headers,
                             !._write_buffer = sent._write_buffer])

\* RFC2295Handler.send_response around the outcome of HandlerMixin.send_response,
\* and the response of the request that get() answers with it
RFC2295Handler_send_response(self, sent) ==
    IF ~sent.raised
    THEN finish([self EXCEPT !._headers = sent._headers,
                             !._write_buffer = sent._write_buffer])
    ELSE IF sent.value.type = "HTTPError" /\ sent.value.status_code = 406
    THEN finish([self EXCEPT !._status_code = 300, !._reason = "Multiple Choices",
                             !._headers = update(sent._headers,
                                                 [Vary |-> "negotiate, accept"])])
    ELSE send_error(sent.value)

\* RFC2295Handler.get after prepare
RFC2295Handler_get(self, types, handlers) ==
    RFC2295Handler_send_response(self,
        send_response(self, types, handlers, StrValue(<<"a">>)))

-----------------------------------------------------------------------------
(* The dict objects of a test, and Response built from them *)

DictRef(at) == [type |-> "dict", at |-> at]

\* d[k] = v
setitem(d, k, v) == [x \in DOMAIN d \cup {k} |-> IF x = k THEN v ELSE d[x]]

\* a dict display: a new dict object at the next address
new_dict(h, d) == [heap |-> Append(h, d), ref |-> DictRef(Len(h) + 1)]

\* headers or {}: None and the empty dict are false
or_empty_dict(h, headers) ==
    IF headers = NoneValue \/ h[headers.at] = EmptyDict
    THEN new_dict(h, EmptyDict)
    ELSE [heap |-> h, ref |-> headers]

\* a copy() that hands back the dict it was called on
copy_sharing(h, ref) == [heap |-> h, ref |-> ref]

\* dict.copy(): a new dict object with the same items
copy(h, ref) == new_dict(h, h[ref.at])

\* Response.__init__ on the heap: self.headers refers to the copy
Response__init__(h, status, reason, body, headers) ==
    LET given == or_empty_dict(h, headers)
        copied == copy(given.heap, given.ref)
    IN  [heap |-> copied.heap, self |-> Response(status, reason, body, copied.ref)]

-----------------------------------------------------------------------------
(* The state machine *)

Init ==
    /\ _services = [n \in Names |-> NoService]
    /\ sockets = << >>
    /\ listening = {}
    /\ in_flight = << >>
    /\ name_of = EmptyDict
    /\ _endpoints = EmptyDict
    /\ _responses = EmptyDict
    /\ _requests = EmptyDict
    /\ rules = InitialRules
    /\ added = EmptyDict
    /\ delivered = EmptyDict
    /\ made = EmptyDict
    /\ nAdds = 0
    /\ nReqs = 0
    /\ url_prev = [op |-> "init"]
    /\ _content_types = EmptyDict
    /\ _content_handlers = EmptyDict
    /\ request_handler = [type |-> "NoneType"]
    /\ calls = [bodies |-> 0, selected |-> 0, decoded |-> 0, sends |-> 0,
                first |-> [type |-> "NoneType"]]
    /\ heap = << >>
    /\ locals = {}
    /\ built = << >>
    /\ torn_down = FALSE
    /\ last = [op |-> "init"]

\* ServiceLayer.get_service(service); layer[service] is the same function
\* (__getitem__ = get_service)
GetService(service) ==
    /\ IF lookup(_services, service) # NoService
       THEN /\ last' = [op |-> "get_service", name |-> service,
                        ret |-> lookup(_services, service), created |-> FALSE]
            /\ UNCHANGED <<_services, sockets, listening, in_flight, name_of, _endpoints, _responses, _requests,
                           rules, added, delivered, made, nAdds, nReqs>>
       ELSE /\ Len(sockets) < MaxSockets
            /\ LET p == Len(sockets) + 1     \* the port the OS assigns: any unused one
               IN  /\ name_of' = (p :> service) @@ name_of
                   /\ _requests' = (p :> EmptyDict) @@ _requests
                   /\ _responses' = (p :> EmptyDict) @@ _responses
                   /\ _endpoints' = (p :> {}) @@ _endpoints
                   /\ added' = (p :> EmptyDict) @@ added
                   /\ made' = (p :> EmptyDict) @@ made
                   /\ delivered' = (p :> EmptyDict) @@ delivered
                   /\ sockets' = Append(sockets, p)
                   /\ listening' = listening \cup {p}
                   /\ _services' = [_services EXCEPT ![service] = p]
                   /\ last' = [op |-> "get_service", name |-> service,
                               ret |-> p, created |-> TRUE]
            /\ UNCHANGED <<in_flight, rules, nAdds, nReqs>>
    /\ UNCHANGED <<url_vars, content_vars, test_vars>>

\* Service.add_endpoint(*path)
AddEndpoint(p, path) ==
    /\ p \in Live
    /\ LET reg == _register_endpoint(_endpoints[p], rules, p, _quote_path(path))
       IN  /\ _endpoints' = [_endpoints EXCEPT ![p] = reg._endpoints]
           /\ rules' = reg.rules
    /\ last' = [op |-> "add_endpoint"]
    /\ UNCHANGED <<_services, sockets, listening, in_flight, name_of, _responses, _requests,
                   added, delivered, made, nAdds, nReqs>>
    /\ UNCHANGED <<url_vars, content_vars, test_vars>>

\* Service.add_response(request, response)
AddResponse(p, request, response) ==
    /\ p \in Live
    /\ LET reg == _register_endpoint(_endpoints[p], rules, p, request.resource)
           key == <<request.method, request.resource>>
       IN  /\ _endpoints' = [_endpoints EXCEPT ![p] = reg._endpoints]
           /\ rules' = reg.rules
           /\ _responses' = [_responses EXCEPT ![p] = Put(@, key, Append(Get(@, key), response))]
           /\ added' = [added EXCEPT ![p] = Put(@, key, Append(Get(@, key), response))]
    /\ nAdds' = nAdds + 1
    /\ last' = [op |-> "add_response"]
    /\ UNCHANGED <<_services, sockets, listening, in_flight, name_of, _requests, delivered, made, nReqs>>
    /\ UNCHANGED <<url_vars, content_vars, test_vars>>

\* the application routes a request that arrives at the socket of service p and
\* the handler answers it
Dispatch(p, request) ==
    /\ p \in Live
    /\ LET i == find_handler(rules, request)
           s == IF i = 0 THEN NoService ELSE rules[i].service
           key == <<request.method, request.path>>
       IN  IF s = NoService
           THEN /\ last' = [op |-> "request", port |-> p, service |-> NoService,
                            request |-> request, taken |-> << >>,
                            response |-> IF i = 0 THEN NotFound ELSE _ErrorHandler]
                /\ UNCHANGED <<_requests, _responses, delivered, made>>
           ELSE LET out == _ServiceHandler(_requests[s], _responses[s], request)
                IN  /\ _requests' = [_requests EXCEPT ![s] = out._requests]
                    /\ _responses' = [_responses EXCEPT ![s] = out._responses]
                    /\ delivered' = [delivered EXCEPT ![s] =
                           Put(@, key, Get(@, key) \o out.taken)]
                    /\ made' = [made EXCEPT ![s] =
                           Put(@, request.path, Append(Get(@, request.path), request))]
                    /\ last' = [op |-> "request", port |-> p, service |-> s,
                                request |-> request, taken |-> out.taken,
                                response |-> out.response]
    /\ nReqs' = nReqs + 1
    /\ UNCHANGED <<_services, sockets, listening, in_flight, name_of, _endpoints, rules, added, nAdds>>
    /\ UNCHANGED <<url_vars, content_vars, test_vars>>

\* a client fetches service.url_for(*path, **query)
Fetch(p, method, path, query, payload) ==
    Dispatch(p, HTTPRequest(url_for(p, path, query), method, payload))

\* a client fetches a URL of the service with a query string of its own writing
FetchQuery(p, method, path, pairs, payload) ==
    Dispatch(p, HTTPRequest([url_for(p, path, EmptyDict) EXCEPT !.query = pairs],
                            method, payload))

\* Service.get_requests_for(*path), iterated to the end
GetRequestsFor(p, path) ==
    /\ p \in Live
    /\ last' = [op |-> "get_requests_for", service |-> p, path |-> path,
                result |-> get_requests_for(_requests[p], path)]
    /\ UNCHANGED <<_services, sockets, listening, in_flight, name_of, _endpoints, _responses, _requests,
                   rules, added, delivered, made, nAdds, nReqs>>
    /\ UNCHANGED <<url_vars, content_vars, test_vars>>

\* Service.get_request(*path)
GetRequest(p, path) ==
    /\ p \in Live
    /\ last' = [op |-> "get_request", service |-> p, path |-> path,
                result |-> get_request(_requests[p], path)]
    /\ UNCHANGED <<_services, sockets, listening, in_flight, name_of, _endpoints, _responses, _requests,
                   rules, added, delivered, made, nAdds, nReqs>>
    /\ UNCHANGED <<url_vars, content_vars, test_vars>>

\* Service.assert_request(method, *path, **query)
AssertRequest(p, method, path, query) ==
    /\ p \in Live
    /\ last' = [op |-> "assert_request", service |-> p, method |-> method,
                path |-> path, query |-> query,
                result |-> assert_request(_requests[p], method, path, query)]
    /\ UNCHANGED <<_services, sockets, listening, in_flight, name_of, _endpoints, _responses, _requests,
                   rules, added, delivered, made, nAdds, nReqs>>
    /\ UNCHANGED <<url_vars, content_vars, test_vars>>

\* Service.url_for(*path, **query), the URL as the str it returns
UrlFor(p, path, kw) ==
    /\ p \in Live
    /\ LET resource == _quote_path(path)
           query_str == urlencode(sorted(kw))
       IN  last' = [op |-> "url_for", service |-> p, path |-> path, kw |-> kw,
                    resource |-> resource,
                    url |-> urlunsplit(<<"http", host(p), resource, query_str, None>>)]
    /\ url_prev' = IF last.op = "url_for" THEN last ELSE url_prev
    /\ UNCHANGED <<service_vars, content_vars, test_vars>>

\* no request is being handled
NoHandler == [type |-> "NoneType"]

\* the headers of a request: the ones the client sent
Headers(content_type, accept, accept_charset) ==
    LET sent == [n \in {"Content-Type", "Accept", "Accept-Charset"} |->
                    CASE n = "Content-Type" -> content_type
                      [] n = "Accept" -> accept
                      [] n = "Accept-Charset" -> accept_charset]
    IN  [n \in {m \in DOMAIN sent : sent[m] # None} |-> sent[n]]

\* the documents a handler decodes or sends
Documents == {StrValue(<<"a">>), StrValue(<<"eacute">>), StrValue(<<Hangul>>)}

\* register_text_type(content_type, default_encoding, dumper, loader)
RegisterTextType(content_type, default_encoding, dumper, loader) ==
    /\ LET registered == register_text_type(_content_types, _content_handlers,
                             content_type, default_encoding, dumper, loader)
       IN  /\ _content_types' = registered._content_types
           /\ _content_handlers' = registered._content_handlers
    /\ last' = [op |-> "register_text_type", content_type |-> content_type,
                default_encoding |-> default_encoding, dumper |-> dumper, loader |-> loader]
    /\ UNCHANGED <<request_handler, calls, service_vars, url_vars, test_vars>>

\* register_binary_type(content_type, dumper, loader)
RegisterBinaryType(content_type, dumper, loader) ==
    /\ LET registered == register_binary_type(_content_types, _content_handlers,
                             content_type, dumper, loader)
       IN  /\ _content_types' = registered._content_types
           /\ _content_handlers' = registered._content_handlers
    /\ last' = [op |-> "register_binary_type", content_type |-> content_type,
                dumper |-> dumper, loader |-> loader]
    /\ UNCHANGED <<request_handler, calls, service_vars, url_vars, test_vars>>

\* a request arrives and tornado makes its handler: HandlerMixin.__init__
NewHandler(headers, body) ==
    /\ request_handler' = [request |-> [headers |-> headers, body |-> body],
                   _request_body |-> NoneValue,
                   _headers |-> EmptyDict, _write_buffer |-> << >>,
                   _finished |-> FALSE]
    /\ calls' = [bodies |-> 0, selected |-> 0, decoded |-> 0, sends |-> 0,
                 first |-> NoneValue]
    /\ last' = [op |-> "__init__"]
    /\ UNCHANGED <<_content_types, _content_handlers, service_vars, url_vars, test_vars>>

\* self.get_request_body(); an exception ends the request
GetRequestBody ==
    /\ request_handler # NoHandler
    /\ ~request_handler._finished
    /\ LET got == get_request_body(request_handler, _content_types, _content_handlers)
       IN  /\ request_handler' = [request_handler EXCEPT !._request_body = got._request_body,
                                         !._finished = got.raised]
           /\ calls' = [calls EXCEPT !.bodies = @ + 1,
                                     !.selected = @ + got.selected,
                                     !.decoded = @ + got.decoded,
                                     !.first = IF calls.bodies = 0 /\ ~got.raised
                                               THEN got.value ELSE @]
           /\ last' = [op |-> "get_request_body",
                       result |-> [raised |-> got.raised, value |-> got.value],
                       selected |-> got.selected, decoded |-> got.decoded]
    /\ UNCHANGED <<_content_types, _content_handlers, service_vars, url_vars, test_vars>>

\* self.send_response(response_dict); an exception ends the request
SendResponse(response_dict) ==
    /\ request_handler # NoHandler
    /\ ~request_handler._finished
    /\ LET sent == send_response(request_handler, _content_types, _content_handlers, response_dict)
       IN  /\ request_handler' = [request_handler EXCEPT !._headers = sent._headers,
                                         !._write_buffer = sent._write_buffer,
                                         !._finished = sent.raised]
           /\ _content_types' = sent._content_types
           /\ last' = [op |-> "send_response", response_dict |-> response_dict,
                       result |-> [raised |-> sent.raised, value |-> sent.value]]
    /\ calls' = [calls EXCEPT !.sends = @ + 1]
    /\ UNCHANGED <<_content_handlers, service_vars, url_vars, test_vars>>

\* clear_handlers()
ClearHandlers ==
    /\ LET emptied == clear_handlers(_content_types, _content_handlers)
       IN  /\ _content_types' = emptied._content_types
           /\ _content_handlers' = emptied._content_handlers
    /\ last' = [op |-> "clear_handlers", cleared |-> DOMAIN _content_types]
    /\ UNCHANGED <<request_handler, calls, service_vars, url_vars, test_vars>>

\* list(self.registered_content_types)
RegisteredContentTypes ==
    /\ request_handler # NoHandler
    /\ ~request_handler._finished
    /\ \E result \in registered_content_types(_content_types) :
           last' = [op |-> "registered_content_types", result |-> result]
    /\ UNCHANGED <<content_vars, service_vars, url_vars, test_vars>>

Ports == 1..MaxSockets

\* the test makes a dict of its own: headers = {...}
NewDict(d) ==
    /\ Len(heap) < MaxDicts
    /\ heap' = new_dict(heap, d).heap
    /\ locals' = locals \cup {new_dict(heap, d).ref.at}
    /\ last' = [op |-> "dict"]
    /\ UNCHANGED <<built, torn_down>>
    /\ UNCHANGED <<service_vars, url_vars, content_vars>>

\* the test builds Response(status, reason, headers=headers), the headers None or
\* one of its own dicts
NewResponse(status, reason, headers) ==
    /\ Len(built) < MaxResponses
    /\ Len(heap) + 2 <= MaxDicts
    /\ IF headers = NoneValue THEN TRUE ELSE headers.at \in locals
    /\ LET new == Response__init__(heap, status, reason, None, headers)
       IN  /\ heap' = new.heap
           /\ built' = Append(built,
                  [self |-> new.self, reason |-> reason, headers |-> headers,
                   given |-> IF headers = NoneValue THEN EmptyDict ELSE heap[headers.at]])
    /\ last' = [op |-> "Response"]
    /\ UNCHANGED <<locals, torn_down>>
    /\ UNCHANGED <<service_vars, url_vars, content_vars>>

\* the test changes one of its own dicts: headers[k] = v
SetItem(at, k, v) ==
    /\ at \in locals
    /\ heap' = [heap EXCEPT ![at] = setitem(@, k, v)]
    /\ last' = [op |-> "setitem", at |-> at]
    /\ UNCHANGED <<locals, built, torn_down>>
    /\ UNCHANGED <<service_vars, url_vars, content_vars>>

\* the test that owns the ServiceLayer ends.  ServiceLayer and Service define no
\* teardown and nothing closes Service.acceptor: the sockets stay as they are unless
\* the owner closes the IOLoop they are registered with together with its file
\* descriptors, as tornado.testing.AsyncTestCase does and unittest.TestCase does not
TearDown(closes_all_fds) ==
    /\ ~torn_down
    /\ torn_down' = TRUE
    /\ listening' = IF closes_all_fds THEN {} ELSE listening
    /\ last' = [op |-> "tearDown", closes_all_fds |-> closes_all_fds]
    /\ UNCHANGED <<_services, sockets, in_flight, name_of, _endpoints, _responses, _requests, rules,
                   added, delivered, made, nAdds, nReqs>>
    /\ UNCHANGED <<heap, locals, built>>
    /\ UNCHANGED <<url_vars, content_vars>>

\* GET /rfc2295 with the given headers: prepare, get and finish of RFC2295Handler
GetRFC2295(headers) ==
    /\ \E content_types \in registered_content_types(_content_types) :
           last' = [op |-> "GET /rfc2295", headers |-> headers,
                    content_types |-> content_types,
                    response |-> RFC2295Handler_get(
                        RFC2295Handler_prepare(
                            RequestHandler([headers |-> headers, body |-> << >>,
                                            uri |-> "/rfc2295"]),
                            content_types),
                        _content_types, _content_handlers)]
    /\ UNCHANGED <<content_vars, service_vars, url_vars, test_vars>>

\* a request arrives at the socket of service p: the application routes it and the
\* handler runs prepare; the request of a _ServiceHandler that prepare recorded is
\* in flight until its method runs
Prepare(p, request) ==
    /\ p \in Live
    /\ Len(in_flight) < MaxInFlight
    /\ LET i == find_handler(rules, request)
           s == IF i = 0 THEN NoService ELSE rules[i].service
       IN  IF s = NoService
           THEN /\ last' = [op |-> "request", port |-> p, service |-> NoService,
                            request |-> request, taken |-> << >>,
                            response |-> IF i = 0 THEN NotFound ELSE _ErrorHandler]
                /\ UNCHANGED <<_requests, made, in_flight>>
           ELSE LET prepared == record_request(_requests[s], request)
                IN  /\ _requests' = [_requests EXCEPT ![s] = prepared._requests]
                    /\ made' = [made EXCEPT ![s] =
                           Put(@, request.path, Append(Get(@, request.path), request))]
                    /\ in_flight' = IF prepared.raised THEN in_flight
                                    ELSE Append(in_flight, [port |-> p, service |-> s,
                                                            request |-> request])
                    /\ last' = IF prepared.raised
                               THEN [op |-> "request", port |-> p, service |-> s,
                                     request |-> request, taken |-> << >>,
                                     response |-> HTTPError(500, "Internal Server Error")]
                               ELSE [op |-> "prepare", port |-> p, service |-> s,
                                     request |-> request]
    /\ nReqs' = nReqs + 1
    /\ UNCHANGED <<_services, sockets, listening, name_of, _endpoints, _responses, rules,
                   added, delivered, nAdds>>
    /\ UNCHANGED <<url_vars, content_vars, test_vars>>

\* the method of the handler of the i-th request in flight runs: _do_request
DoRequest(i) ==
    /\ i \in 1..Len(in_flight)
    /\ LET s == in_flight[i].service
           request == in_flight[i].request
           key == <<request.method, request.path>>
           next == get_next_response(_responses[s], request)
       IN  /\ _responses' = [_responses EXCEPT ![s] = next._responses]
           /\ delivered' = [delivered EXCEPT ![s] =
                  Put(@, key, Get(@, key) \o
                                  (IF next.raised THEN << >> ELSE <<next.response>>))]
           /\ last' = [op |-> "request", port |-> in_flight[i].port, service |-> s,
                       request |-> request,
                       taken |-> IF next.raised THEN << >> ELSE <<next.response>>,
                       response |-> IF next.raised THEN next.response
                                    ELSE written(next.response)]
    /\ in_flight' = SubSeq(in_flight, 1, i - 1) \o SubSeq(in_flight, i + 1, Len(in_flight))
    /\ UNCHANGED <<_services, sockets, listening, name_of, _endpoints, _requests, rules,
                   added, made, nAdds, nReqs>>
    /\ UNCHANGED <<url_vars, content_vars, test_vars>>

\* a test programs the resources of two services while the application under
\* test calls them
Next ==
    \/ \E n \in Names : GetService(n)
    \/ \E p \in Ports : AddEndpoint(p, <<SegA>>)
    \/ /\ nAdds < MaxLayerAdds
       /\ \E p \in Ports, path \in {<< >>, <<SegA>>} :
              AddResponse(p, Request("GET", path), Response(200, None, None, EmptyDict))
    \/ /\ nReqs < MaxLayerReqs
       /\ \E p \in Ports, path \in {<< >>, <<SegA>>} :
              Fetch(p, "GET", path, EmptyDict, PlainPayload)

Spec == Init /\ [][Next]_vars

\* a test programs the methods of two resources of one service
NextQueue ==
    \/ GetService("s1")
    \/ \E path \in {<<SegA>>, <<SegSpace>>} : AddEndpoint(1, path)
    \/ /\ nAdds < MaxAdds
       /\ \E m \in Methods, path \in {<<SegA>>, <<SegSpace>>}, r \in Responses :
              AddResponse(1, Request(m, path), r)
    \/ /\ nReqs < MaxReqs
       /\ \E m \in Methods, path \in {<<SegA>>, <<SegSpace>>} :
              Fetch(1, m, path, EmptyDict, PlainPayload)

SpecQueue == Init /\ [][NextQueue]_vars

\* a test of one service that looks at what the service recorded
NextLog ==
    \/ GetService("s1")
    \/ AddEndpoint(1, <<SegSpace>>)
    \/ /\ nAdds < MaxAdds
       /\ AddResponse(1, Request("GET", <<SegA>>), Response(200, None, None, EmptyDict))
    \/ /\ nReqs < MaxReqs
       /\ \E c \in ClientCalls, path \in SegLists :
              Fetch(1, c.method, path, c.query, c.payload)
    \/ \E path \in SegLists : GetRequestsFor(1, path)
    \/ \E path \in SegLists : GetRequest(1, path)
    \/ \E m \in Methods, path \in SegLists, q \in Kwargs :
           AssertRequest(1, m, path, q)

SpecLog == Init /\ [][NextLog]_vars

\* a test asks two services for URLs
NextUrl ==
    \/ \E n \in Names : GetService(n)
    \/ \E p \in Ports, path \in {<< >>, <<SegSpace>>}, kw \in KwargLists : UrlFor(p, path, kw)

SpecUrl == Init /\ [][NextUrl]_vars

\* a test names the resources of one service by their segments
NextPath ==
    \/ GetService("s1")
    \/ \E path \in {<<SegSlashA>>, <<SegA, SegSpace>>} : AddEndpoint(1, path)
    \/ /\ nReqs < MaxReqs
       /\ \E path \in PathLists : Fetch(1, "GET", path, EmptyDict, PlainPayload)
    \/ \E path \in PathLists : GetRequestsFor(1, path)
    \/ \E path \in PathLists : UrlFor(1, path, << >>)

SpecPath == Init /\ [][NextPath]_vars

\* what clients put in the Accept and Accept-Charset headers; None: no header
Accepts == {None, "application/json", "application/msgpack", "application/xml",
            "application/json, */*;q=0.1", "*/*;q=0.1, application/msgpack"}
AcceptCharsets == {None, "utf8", "latin1"}

\* a JSON string of one character beyond ASCII, as Latin-1 bytes
LatinBody == <<Ascii.quot, Latin1.eacute, Ascii.quot>>

\* the ways an application registers JSON: content type, default encoding, dumper
TextRegistrations ==
    {<<"application/json", "utf-8", TextHooks.dumper>>,
     <<"application/json; charset=utf-8", "latin1", TextHooks.dumper>>,
     <<"application/json", "utf-8", UnicodeDumper>>}

\* an application registers its types and answers requests
NextEncode ==
    \/ \E registration \in TextRegistrations :
           RegisterTextType(registration[1], registration[2], registration[3],
                            TextHooks.loader)
    \/ RegisterBinaryType("application/msgpack", BinaryHooks.dumper, BinaryHooks.loader)
    \/ \E accept \in Accepts, accept_charset \in AcceptCharsets :
           NewHandler(Headers("application/json; charset=latin1", accept, accept_charset),
                      LatinBody)
    \/ /\ calls.bodies < MaxBodyCalls
       /\ GetRequestBody
    \/ /\ calls.sends < MaxSends
       /\ \E response_dict \in Documents : SendResponse(response_dict)

SpecEncode == Init /\ [][NextEncode]_vars

\* the Content-Type headers of requests; None: no header
ContentTypeHeaders ==
    {None, "application/json", "application/json; charset=latin1",
     "application/json; charset=utf-8", "application/json; charset=foo",
     "application/msgpack", "application/xml"}

\* request bodies: null, "e-acute" in Latin-1 and in UTF-8, a lone letter, and
\* the letter packed by msgpack
NullBody == <<Ascii.n, Ascii.u, Ascii.l, Ascii.l>>
Utf8Body == <<Ascii.quot, 195, 169, Ascii.quot>>
BadBody == <<Ascii.a>>
PackedBody == msgpack_packb(StrValue(<<"a">>))
Bodies == {NullBody, LatinBody, Utf8Body, BadBody, PackedBody}

\* an application registers its types and reads the bodies of requests
NextDecode ==
    \/ \E registration \in TextRegistrations :
           RegisterTextType(registration[1], registration[2], registration[3],
                            TextHooks.loader)
    \/ RegisterBinaryType("application/msgpack", BinaryHooks.dumper, BinaryHooks.loader)
    \/ \E content_type \in ContentTypeHeaders, body \in Bodies :
           NewHandler(Headers(content_type, None, None), body)
    \/ /\ calls.bodies < MaxBodyCalls
       /\ GetRequestBody

SpecDecode == Init /\ [][NextDecode]_vars

\* a JSON string of one Hangul syllable, as UTF-8 bytes
HangulBody == <<Ascii.quot, 236, 132, 184, Ascii.quot>>

\* HttpbinHandler.post: a handler reads the body of a JSON request and sends
\* back what it read
NextPost ==
    \/ \E registration \in TextRegistrations :
           RegisterTextType(registration[1], registration[2], registration[3],
                            TextHooks.loader)
    \/ \E content_type \in {"application/json", "application/json; charset=latin1",
                            "application/json; charset=utf-8"},
          accept_charset \in AcceptCharsets,
          body \in {LatinBody, Utf8Body, HangulBody} :
           NewHandler(Headers(content_type, "application/json", accept_charset), body)
    \/ /\ calls.bodies < MaxBodyCalls
       /\ GetRequestBody
    \/ /\ calls.sends < MaxSends
       /\ calls.bodies > 0
       /\ SendResponse(request_handler._request_body)

SpecPost == Init /\ [][NextPost]_vars

\* Accept-Charset headers, one of them a name Python has no codec for
UnknownCharset == "foo"
CharsetHeaders == {None, "latin1", UnknownCharset}

\* JSON registered with a dumper that escapes nothing and Latin-1 as the default
CharsetRegistrations ==
    TextRegistrations \cup {<<"application/json", "latin1", UnicodeDumper>>}

\* an application answers requests that ask for a charset
NextCharset ==
    \/ \E registration \in CharsetRegistrations :
           RegisterTextType(registration[1], registration[2], registration[3],
                            TextHooks.loader)
    \/ RegisterBinaryType("application/msgpack", BinaryHooks.dumper, BinaryHooks.loader)
    \/ \E accept \in {None, "application/json", "application/msgpack"},
          accept_charset \in CharsetHeaders :
           NewHandler(Headers(None, accept, accept_charset), << >>)
    \/ /\ calls.sends < MaxSends
       /\ \E response_dict \in Documents : SendResponse(response_dict)

SpecCharset == Init /\ [][NextCharset]_vars

\* the two types an application registers codecs for
Types == {"application/json", "application/msgpack"}

\* the letter a as JSON text
TextBody == <<Ascii.quot, Ascii.a, Ascii.quot>>

\* an application registers a text and a binary codec, also for one and the
\* same type, and its handler sends back the body it read
NextBoth ==
    \/ \E content_type \in Types, default_encoding \in {"utf-8", "latin1"} :
           RegisterTextType(content_type, default_encoding,
                            TextHooks.dumper, TextHooks.loader)
    \/ \E content_type \in Types :
           RegisterBinaryType(content_type, BinaryHooks.dumper, BinaryHooks.loader)
    \/ \E content_type \in Types, accept \in Types, body \in {TextBody, PackedBody} :
           NewHandler(Headers(content_type, accept, None), body)
    \/ /\ calls.bodies < MaxBodyCalls
       /\ GetRequestBody
    \/ /\ calls.sends < MaxSends
       /\ calls.bodies > 0
       /\ SendResponse(request_handler._request_body)

SpecBoth == Init /\ [][NextBoth]_vars

\* a test registers its types, serves requests and clears the registry
NextClear ==
    \/ RegisterTextType("application/json", "utf-8", TextHooks.dumper, TextHooks.loader)
    \/ RegisterBinaryType("application/msgpack", BinaryHooks.dumper, BinaryHooks.loader)
    \/ ClearHandlers
    \/ \E content_type \in {None, "application/json"}, accept \in {None, "application/msgpack"} :
           NewHandler(Headers(content_type, accept, None), TextBody)
    \/ RegisteredContentTypes
    \/ /\ calls.bodies < MaxBodyCalls
       /\ GetRequestBody
    \/ /\ calls.sends < MaxSends
       /\ SendResponse(StrValue(<<"a">>))

SpecClear == Init /\ [][NextClear]_vars

\* request bodies in JSON and in msgpack
RoundBodies == {TextBody, Utf8Body, HangulBody, PackedBody,
                msgpack_packb(StrValue(<<Hangul>>))}

\* a handler translates: it reads a body in one registered type and sends it
\* back in the type and charset the client accepts
NextRound ==
    \/ \E registration \in CharsetRegistrations :
           RegisterTextType(registration[1], registration[2], registration[3],
                            TextHooks.loader)
    \/ RegisterBinaryType("application/msgpack", BinaryHooks.dumper, BinaryHooks.loader)
    \/ \E content_type \in Types, accept \in Types,
          accept_charset \in AcceptCharsets, body \in RoundBodies :
           NewHandler(Headers(content_type, accept, accept_charset), body)
    \/ /\ calls.bodies < MaxBodyCalls
       /\ GetRequestBody
    \/ /\ calls.sends < MaxSends
       /\ calls.bodies > 0
       /\ SendResponse(request_handler._request_body)

SpecRound == Init /\ [][NextRound]_vars

\* a test that builds responses from header dicts it goes on changing
HeaderDicts == {EmptyDict, [Custom |-> "header"]}

NextResponse ==
    \/ \E d \in HeaderDicts : NewDict(d)
    \/ \E reason \in {None, "Not Found"}, headers \in {NoneValue} \cup {DictRef(at) : at \in locals} :
           NewResponse(404, reason, headers)
    \/ \E at \in locals, k \in {"Custom", "Other"} : SetItem(at, k, "changed")

SpecResponse == Init /\ [][NextResponse]_vars

\* a test sets two services up, lets the application call them and ends
NextTeardown ==
    \/ /\ ~torn_down
       /\ \E n \in Names : GetService(n)
    \/ /\ ~torn_down
       /\ nAdds < MaxLayerAdds
       /\ \E p \in Ports, path \in {<< >>, <<SegA>>} :
              AddResponse(p, Request("GET", path), Response(200, None, None, EmptyDict))
    \/ /\ ~torn_down
       /\ nReqs < MaxLayerReqs
       /\ \E p \in Ports, path \in {<< >>, <<SegA>>} :
              Fetch(p, "GET", path, EmptyDict, PlainPayload)
    \/ \E closes_all_fds \in BOOLEAN : TearDown(closes_all_fds)

SpecTeardown == Init /\ [][NextTeardown]_vars

\* query strings a client writes by hand, as <<name, value>> pairs in order
QueryStrings == {<<<<"foo", "bar">>>>,
                 <<<<"foo", "bar">>, <<"foo", "baz">>>>,
                 <<<<"arg", "value">>, <<"foo", "bar">>, <<"arg", "other">>>>}

\* a test of one service whose clients write their own query strings
NextQuery ==
    \/ GetService("s1")
    \/ /\ nAdds < MaxAdds
       /\ \E m \in Methods, r \in Responses : AddResponse(1, Request(m, <<SegA>>), r)
    \/ /\ nReqs < MaxReqs
       /\ \E m \in Methods, path \in {<<SegA>>, <<SegSpace>>}, pairs \in QueryStrings :
              FetchQuery(1, m, path, pairs, PlainPayload)
    \/ GetRequestsFor(1, <<SegA>>)

SpecQuery == Init /\ [][NextQuery]_vars

\* the Negotiate and Accept headers of the clients of /rfc2295
Negotiates == {None, "vlist", "trans", "trans, vlist"}
NegotiateHeaders(negotiate, accept) ==
    update(Headers(None, accept, None),
           IF negotiate = None THEN EmptyDict ELSE [Negotiate |-> negotiate])

\* the example application registers its types and answers GET /rfc2295
NextNegotiate ==
    \/ \E default_encoding \in {"utf-8", "latin1"} :
           RegisterTextType("application/json", default_encoding,
                            TextHooks.dumper, TextHooks.loader)
    \/ \E content_type \in Types :
           RegisterBinaryType(content_type, BinaryHooks.dumper, BinaryHooks.loader)
    \/ ClearHandlers
    \/ \E negotiate \in Negotiates,
          accept \in {None, "plain/text", "application/xml", "application/json"} :
           GetRFC2295(NegotiateHeaders(negotiate, accept))

SpecNegotiate == Init /\ [][NextNegotiate]_vars

\* a test programs the methods of a resource while clients request it at the same
\* time: the handlers' prepare and method steps interleave with each other and with
\* add_response
NextConcurrent ==
    \/ GetService("s1")
    \/ /\ nAdds < MaxAdds
       /\ \E m \in Methods, r \in Responses : AddResponse(1, Request(m, <<SegA>>), r)
    \/ /\ nReqs < MaxReqs + 1
       /\ \E m \in Methods, pairs \in {<< >>, <<<<"foo", "bar">>, <<"foo", "baz">>>>} :
              Prepare(1, HTTPRequest([url_for(1, <<SegA>>, EmptyDict) EXCEPT !.query = pairs],
                                     m, PlainPayload))
    \/ \E i \in 1..MaxInFlight : DoRequest(i)

SpecConcurrent == Init /\ [][NextConcurrent]_vars

\* a test programs both methods of two resources, clients call them with and
\* without queries, and the test reads the log in between
NextFrame ==
    \/ GetService("s1")
    \/ /\ nAdds < MaxAdds
       /\ \E m \in Methods, path \in {<<SegA>>, <<SegSpace>>} :
              AddResponse(1, Request(m, path), Response(200, None, None, EmptyDict))
    \/ /\ nReqs < MaxReqs
       /\ \E m \in Methods, path \in {<<SegA>>, <<SegSpace>>},
             query \in {EmptyDict, [foo |-> "bar"]} :
              Fetch(1, m, path, query, PlainPayload)
    \/ \E path \in {<<SegA>>, <<SegSpace>>} : GetRequestsFor(1, path)
    \/ \E path \in {<<SegA>>, <<SegSpace>>} : GetRequest(1, path)
    \/ \E m \in Methods, query \in {EmptyDict, [foo |-> "bar"]} :
           AssertRequest(1, m, <<SegA>>, query)

SpecFrame == Init /\ [][NextFrame]_vars

\* a test registers '/' and '/a' on two services, more than once and in both ways,
\* and clients request them
NextRoutes ==
    \/ \E n \in Names : GetService(n)
    \/ \E p \in Ports, path \in {<< >>, <<SegA>>} : AddEndpoint(p, path)
    \/ /\ nAdds < MaxAdds
       /\ \E p \in Ports, path \in {<< >>, <<SegA>>} :
              AddResponse(p, Request("GET", path), Response(222, None, None, EmptyDict))
    \/ /\ nReqs < MaxLayerAdds
       /\ \E path \in {<< >>, <<SegA>>} :
              Fetch(1, "GET", path, EmptyDict, PlainPayload)

SpecRoutes == Init /\ [][NextRoutes]_vars

\* an application registers its types, with and without parameters, clears them
\* and registers again, and answers requests in between
NextRegistry ==
    \/ \E registration \in TextRegistrations :
           RegisterTextType(registration[1], registration[2], registration[3],
                            TextHooks.loader)
    \/ \E content_type \in {"application/msgpack", "application/msgpack; q=0.5",
                            "application/json"} :
           RegisterBinaryType(content_type, BinaryHooks.dumper, BinaryHooks.loader)
    \/ ClearHandlers
    \/ \E content_type \in Types, accept \in {None, "application/msgpack"} :
           NewHandler(Headers(content_type, accept, None), TextBody)
    \/ /\ calls.bodies < MaxBodyCalls
       /\ GetRequestBody
    \/ /\ calls.sends < MaxSends
       /\ SendResponse(StrValue(<<"a">>))

SpecRegistry == Init /\ [][NextRegistry]_vars

\* one Latin-1 byte packed by msgpack as a raw string: not UTF-8
PackedLatinBody == <<161, Latin1.eacute>>

\* an application registers binary codecs, also for a type that has a text
\* codec, and its handler reads and answers requests that name charsets
NextBinary ==
    \/ RegisterTextType("application/json", "utf-8", UnicodeDumper, TextHooks.loader)
    \/ \E content_type \in Types :
           RegisterBinaryType(content_type, BinaryHooks.dumper, BinaryHooks.loader)
    \/ \E content_type \in {"application/json", "application/json; charset=latin1",
                            "application/json; charset=foo", "application/msgpack"},
          accept \in Types, accept_charset \in CharsetHeaders,
          body \in {TextBody, PackedBody, PackedLatinBody} :
           NewHandler(Headers(content_type, accept, accept_charset), body)
    \/ /\ calls.bodies < MaxBodyCalls
       /\ GetRequestBody
    \/ /\ calls.sends < MaxSends
       /\ \E response_dict \in {StrValue(<<"a">>), StrValue(<<Hangul>>)} :
              SendResponse(response_dict)

SpecBinary == Init /\ [][NextBinary]_vars

-----------------------------------------------------------------------------
(* Properties *)

IsPrefix(a, b) == Len(a) <= Len(b) /\ SubSeq(b, 1, Len(a)) = a

Keys(p) == DOMAIN added[p] \cup DOMAIN delivered[p] \cup DOMAIN _responses[p]

\* the key of the request that was just answered
LastKey == <<last.request.method, last.request.path>>

\* the requests dispatched to service p for a key
MadeFor(p, key) == SelectSeq(Get(made[p], key[2]), LAMBDA r : r.method = key[1])

\* C1: for every service and (method, path) key the responses are handed out in
\* the order add_response appended them, one per request: the k-th response the
\* service hands out for the key is the k-th added for it, never more responses
\* than requests, and it is what the request that took it is answered with.
C1_Fifo ==
    /\ \A p \in Live : \A key \in Keys(p) :
           /\ IsPrefix(Get(delivered[p], key), Get(added[p], key))
           /\ Len(Get(delivered[p], key)) <= Len(MadeFor(p, key))
    /\ (last.op = "request" /\ last.taken # << >>)
           => LET k == Len(Get(delivered[last.service], LastKey))
              IN  /\ k >= 1
                  /\ k <= Len(Get(added[last.service], LastKey))
                  /\ last.taken = <<Get(added[last.service], LastKey)[k]>>
                  /\ last.response = written(Get(added[last.service], LastKey)[k])

\* two different responses of one key have been handed out, the second just now
C1_Witness ==
    /\ last.op = "request"
    /\ last.taken # << >>
    /\ Len(Get(delivered[last.service], LastKey)) = 2
    /\ Get(delivered[last.service], LastKey)[1] # Get(delivered[last.service], LastKey)[2]
    /\ last.response = written(Get(delivered[last.service], LastKey)[2])

\* a step that is an inbound request
IsRequest == nReqs' = nReqs + 1

\* C2: a request dispatched to a service that has nothing queued for the
\* request's (method, path) is answered 456 'Test Configuration Error', and no
\* queue of any service changes.
C2_EmptyQueue456 ==
    [][(IsRequest /\ last'.service # NoService
            /\ Get(_responses[last'.service],
                   <<last'.request.method, last'.request.path>>) = << >>)
        => /\ last'.response.status = 456
           /\ last'.response.reason = "Test Configuration Error"
           /\ last'.taken = << >>
           /\ _responses' = _responses]_vars

\* an endpoint with nothing queued was just requested while a response is queued
\* under another key of the same service
C2_Witness ==
    /\ last.op = "request"
    /\ last.service # NoService
    /\ last.response.status = 456
    /\ last.request.path \in _endpoints[last.service]
    /\ \E key \in DOMAIN _responses[last.service] : key # LastKey

\* C5: every request dispatched to a service is appended to that service's log
\* of the request's path, also when nothing is queued for it: the log of a path
\* holds as many requests as were dispatched for it, and a request answered 456
\* is the last one get_requests_for yields for its path.
C5_RecordedBeforeLookup ==
    /\ \A p \in Live : \A path \in DOMAIN made[p] \cup DOMAIN _requests[p] :
           /\ Len(Get(_requests[p], path)) = Len(Get(made[p], path))
           /\ \A i \in 1..Len(Get(made[p], path)) :
                  /\ _requests[p][path][i].method = made[p][path][i].method
                  /\ _requests[p][path][i].body = made[p][path][i].body
    /\ (last.op = "request" /\ last.service # NoService)
           => \A segs \in SegLists :
                  _quote_path(segs) = last.request.path
                  => LET got == get_requests_for(_requests[last.service], segs)
                     IN  /\ ~got.raised
                         /\ got.value[Len(got.value)].method = last.request.method
                         /\ got.value[Len(got.value)].body = last.request.body

\* a request to a registered endpoint was just answered 456 and is in the log
C5_Witness ==
    /\ last.op = "request"
    /\ last.service # NoService
    /\ last.response.status = 456
    /\ last.taken = << >>
    /\ last.request.path \in _endpoints[last.service]
    /\ Get(_requests[last.service], last.request.path) # << >>

\* C3: a request to a path that no service has registered as an endpoint is
\* answered 456, whatever the path.
C3_UnregisteredPath456 ==
    (last.op = "request" /\ \A s \in Live : last.request.path \notin _endpoints[s])
        => last.response.status = 456

\* C4: a request sent to the address of service S is recorded in the log of S
\* and takes its response from the queues of S; the logs and queues of every
\* other service stay as they are.
C4_OwnServiceOnly ==
    [][IsRequest
        => /\ last'.service \in {NoService, last'.port}
           /\ \A s \in Live \ {last'.port} :
                  /\ _requests'[s] = _requests[s]
                  /\ _responses'[s] = _responses[s]]_vars

\* C9: when the response next in line for (m, _quote_path(segments)) at a
\* service is r, a request with method m sent to that service's
\* url_for(*segments) is answered with the status, reason, headers and body of r.
C9_ProgrammedResponseReturned ==
    [][\A segs \in SegLists :
           (/\ IsRequest
            /\ last'.request.path = url_for(last'.port, segs, EmptyDict).path
            /\ Get(_responses[last'.port],
                   <<last'.request.method, Request(last'.request.method, segs).resource>>)
                   # << >>)
           => last'.response =
                  written(Head(Get(_responses[last'.port],
                      <<last'.request.method,
                        Request(last'.request.method, segs).resource>>)))]_vars

\* C10: get_service returns the Service registered under the name; every Service
\* ever made is still the one registered under its name (none was replaced),
\* distinct names have distinct services, and each service's socket is attached
\* to the server exactly once.
C10_OneServicePerName ==
    /\ \A p \in Live : _services[name_of[p]] = p
    /\ \A n \in Names : _services[n] # NoService => _services[n] \in Live
    /\ \A n1, n2 \in Names :
           (n1 # n2 /\ _services[n1] # NoService) => _services[n1] # _services[n2]
    /\ \A p \in Live : Cardinality({i \in 1..Len(sockets) : sockets[i] = p}) = 1
    /\ Len(sockets) = Cardinality({n \in Names : _services[n] # NoService})
    /\ last.op = "get_service"
           => /\ last.ret = _services[last.name]
              /\ last.ret # NoService
              /\ name_of[last.ret] = last.name

\* get_service was called again for a name while two services exist, and
\* returned the service of its first call
C10_Witness ==
    /\ last.op = "get_service"
    /\ ~last.created
    /\ last.ret = _services[last.name]
    /\ \A n \in Names : _services[n] # NoService

\* the query of an inbound request, one value per key
QueryOf(request) ==
    [n \in DOMAIN request.query_arguments |-> request.query_arguments[n][1]]

\* a recorded Request carries what the inbound request carried
Carries(req, request) ==
    /\ req.method = request.method
    /\ req.body = request.body
    /\ req.headers = request.headers
    /\ req.query = QueryOf(request)

\* C6: assert_request(method, *path, **query) returns normally exactly when a
\* request recorded for that path has that method and exactly that query, and
\* fails with AssertionError otherwise.
C6_AssertRequestIff ==
    last.op = "assert_request"
        => LET requests == Get(made[last.service], _quote_path(last.path))
           IN  (~last.result.raised)
                   <=> \E i \in 1..Len(requests) :
                           /\ requests[i].method = last.method
                           /\ QueryOf(requests[i]) = last.query

\* C7: get_requests_for(*path) and get_request(*path) fail with AssertionError
\* when no request was made for the path; otherwise get_requests_for yields
\* exactly the requests made for it, in the order they were made, and
\* get_request returns the first of them.
C7_RequestsInOrder ==
    /\ last.op = "get_requests_for"
           => LET requests == Get(made[last.service], _quote_path(last.path))
              IN  IF requests = << >>
                  THEN last.result.raised /\ last.result.value = "AssertionError"
                  ELSE /\ ~last.result.raised
                       /\ Len(last.result.value) = Len(requests)
                       /\ \A i \in 1..Len(requests) :
                              Carries(last.result.value[i], requests[i])
    /\ last.op = "get_request"
           => LET requests == Get(made[last.service], _quote_path(last.path))
              IN  IF requests = << >>
                  THEN last.result.raised /\ last.result.value = "AssertionError"
                  ELSE /\ ~last.result.raised
                       /\ Carries(last.result.value, requests[1])

\* get_requests_for just yielded two different requests of one path
C7_Witness ==
    /\ last.op = "get_requests_for"
    /\ ~last.result.raised
    /\ Len(last.result.value) = 2
    /\ last.result.value[1].method # last.result.value[2].method

\* C8: a recorded Request carries the method, body, headers and query of the
\* inbound request, and its resource is the path it was requested at, the one
\* get_requests_for returns it under.
C8_RecordedDetails ==
    \A p \in Live : \A path \in DOMAIN _requests[p] :
        \A i \in 1..Len(_requests[p][path]) :
            /\ i <= Len(Get(made[p], path))
            /\ Carries(_requests[p][path][i], made[p][path][i])
            /\ _requests[p][path][i].resource = path

\* the query string the parameters of a call must give, whatever their order
ExpectedQuery(query) ==
    CASE query = EmptyDict -> ""
      [] query = [foo |-> "bar"] -> "?foo=bar"
      [] query = [arg |-> "a b", foo |-> "bar"] -> "?arg=a+b&foo=bar"

\* C11: url_for returns http://<the service's own host:port><resource>, followed
\* by the parameters sorted by key and joined with '&'; the URL is the same
\* whatever the order the parameters were passed in, and a call with the
\* arguments of the call before it returns the URL that call returned.
C11_UrlForDeterministic ==
    last.op = "url_for"
        => /\ last.url = "http://127.0.0.1:" \o ToString(last.service)
                             \o (IF last.path = << >> THEN "/" ELSE "/%20")
                             \o ExpectedQuery(dict(last.kw))
           /\ url_for(last.service, last.path, dict(last.kw)).query = sorted(last.kw)
           /\ \A p \in Live \ {last.service} : host(p) # host(last.service)
           /\ (/\ url_prev.op = "url_for"
               /\ url_prev.service = last.service
               /\ url_prev.path = last.path
               /\ dict(url_prev.kw) = dict(last.kw))
                  => url_prev.url = last.url

\* url_for was called twice on one service with the same two parameters in
\* opposite orders, while another service exists
C11_Witness ==
    /\ last.op = "url_for"
    /\ url_prev.op = "url_for"
    /\ url_prev.service = last.service
    /\ url_prev.path = last.path
    /\ Len(last.kw) = 2
    /\ url_prev.kw # last.kw
    /\ dict(url_prev.kw) = dict(last.kw)
    /\ url_prev.url = last.url
    /\ Live # {last.service}

\* the resource a list of segments names
ExpectedResource(path) ==
    CASE path = << >> -> <<"/">>
      [] path = <<SegA>> -> <<"/", "a">>
      [] path = <<SegSlashA>> -> <<"/", "a">>
      [] path = <<SegSpace>> -> <<"/", "%", "2", "0">>
      [] path = <<SegA, SegSpace>> -> <<"/", "a", "/", "%", "2", "0">>

\* C12: url_for, Request, add_endpoint and get_requests_for all name a resource
\* by the same path: each segment percent-encoded, the segments joined with
\* '/', and '/' put in front unless the path already starts with one; no
\* segments name '/', and ('a') and ('/a') name one resource.
C12_ResourcePath ==
    /\ \A path \in PathLists :
           /\ _quote_path(path) = ExpectedResource(path)
           /\ Request("GET", path).resource = ExpectedResource(path)
           /\ \A p \in Live : url_for(p, path, EmptyDict).path = ExpectedResource(path)
    /\ \A p \in Live : _endpoints[p] \subseteq {ExpectedResource(path) : path \in PathLists}
    /\ last.op = "url_for" => last.resource = ExpectedResource(last.path)
    /\ last.op = "get_requests_for"
           => (~last.result.raised
                  <=> Get(made[last.service], ExpectedResource(last.path)) # << >>)

\* the requests made at url_for('a') were asked for as get_requests_for('/a'),
\* at the endpoint a test registered with add_endpoint('/a')
C12_Witness ==
    /\ last.op = "get_requests_for"
    /\ last.path = <<SegSlashA>>
    /\ ~last.result.raised
    /\ url_prev.op = "url_for"
    /\ url_prev.path = <<SegA>>
    /\ url_prev.resource \in _endpoints[last.service]
    /\ Get(made[last.service], url_prev.resource) # << >>

-----------------------------------------------------------------------------
(* Content negotiation *)

\* the request handler has just answered with a charset in its Content-Type
SentWithCharset ==
    /\ last.op = "send_response"
    /\ ~last.result.raised
    /\ \E charset \in {"utf8", "latin1", "utf-8"} :
           request_handler._headers["Content-Type"] = "application/json; charset=" \o charset

\* C13: whatever send_response and get_request_body calls were made, every
\* ContentType in the registry is as it was registered, without a charset or any
\* other parameter: a response's charset goes on a copy of the selected type.
C13_RegistryNeverMutated ==
    \A key \in DOMAIN _content_types :
        /\ _content_types[key].parameters = EmptyDict
        /\ content_type_str(_content_types[key]) = key

\* a response went out as application/json; charset=..., after the body was read
C13_Witness ==
    /\ SentWithCharset
    /\ calls.bodies > 0
    /\ "application/json" \in DOMAIN _content_types
    /\ _content_types["application/json"].parameters = EmptyDict

\* C14: on one request, the first get_request_body call selects the type and
\* runs the decoder once, and each later call returns the first call's value
\* with no further selection or decoding, whatever the decoder returned; a new
\* request starts with nothing cached.
C14_DecodedOncePerRequest ==
    [][/\ (calls'.bodies = 1 /\ calls.bodies = 0 /\ ~last'.result.raised)
           => (calls'.selected = 1 /\ calls'.decoded = 1)
       /\ (calls'.bodies = calls.bodies + 1 /\ calls.bodies > 0)
           => /\ calls'.selected = calls.selected
              /\ calls'.decoded = calls.decoded
              /\ last'.result = Ok(calls.first)
       /\ last'.op = "__init__" => request_handler'._request_body = NoneValue]_vars

\* the media type a Content-Type header declares; application/octet-stream
\* when the request has no such header
Declared(headers) ==
    IF "Content-Type" \notin DOMAIN headers THEN "application/octet-stream"
    ELSE CASE headers["Content-Type"] \in
                  {"application/json", "application/json; charset=latin1",
                   "application/json; charset=utf-8", "application/json; charset=foo"}
                  -> "application/json"
           [] OTHER -> headers["Content-Type"]

Error415 == WebHTTPError(415, "Unexpected content type")
Error400 == WebHTTPError(400, "Content body decode failure")

\* C15: when the declared Content-Type of the request, application/octet-stream
\* if it has none, is not a registered type, get_request_body fails with 415,
\* calls no decoder and caches nothing.
C15_Unsupported415 ==
    (/\ last.op = "get_request_body"
     /\ Declared(request_handler.request.headers) \notin DOMAIN _content_types)
        => /\ last.result = Raise(Error415)
           /\ last.decoded = 0
           /\ calls.decoded = 0
           /\ request_handler._request_body = NoneValue

\* a request without a Content-Type was refused while JSON was registered
C15_Witness ==
    /\ last.op = "get_request_body"
    /\ "Content-Type" \notin DOMAIN request_handler.request.headers
    /\ "application/json" \in DOMAIN _content_types
    /\ last.result = Raise(Error415)

\* C16: get_request_body fails only with HTTP 415 or HTTP 400; when the type
\* matched, a failure of the decoder or of the charset decoding is a 400,
\* whatever the Content-Type parameters and the body are.
C16_OnlyClientErrors ==
    (last.op = "get_request_body" /\ last.result.raised)
        => /\ last.result.value \in {Error415, Error400}
           /\ Declared(request_handler.request.headers) \in DOMAIN _content_types
                  => last.result.value = Error400

\* the registered types an Accept header admits; any type when there is no header
Admitted(headers) ==
    LET accept == IF "Accept" \in DOMAIN headers THEN headers["Accept"] ELSE "*/*"
    IN  CASE accept = "application/json" -> {"application/json"}
          [] accept = "application/msgpack" -> {"application/msgpack"}
          [] accept = "application/xml" -> {}
          [] OTHER -> {"application/json", "application/msgpack"}

Error406 == WebHTTPError(406, "Content Type Not Acceptable")

\* C17: when no registered type satisfies the request's Accept header (*/* if
\* it has none), send_response fails with 406, sets no Content-Type header and
\* writes nothing.
C17_NotAcceptable406 ==
    (/\ last.op = "send_response"
     /\ Admitted(request_handler.request.headers) \cap DOMAIN _content_types = {})
        => /\ last.result = Raise(Error406)
           /\ "Content-Type" \notin DOMAIN request_handler._headers
           /\ request_handler._write_buffer = << >>

\* application/xml was asked of an application that has JSON and msgpack
C17_Witness ==
    /\ last.op = "send_response"
    /\ "Accept" \in DOMAIN request_handler.request.headers
    /\ request_handler.request.headers["Accept"] = "application/xml"
    /\ DOMAIN _content_types = {"application/json", "application/msgpack"}
    /\ last.result = Raise(Error406)

\* the Accept header of the request being handled; None when it has none
AcceptOf(headers) == IF "Accept" \in DOMAIN headers THEN headers["Accept"] ELSE None

\* the media type of the Content-Type header the handler has set
SentType ==
    LET sent == request_handler._headers["Content-Type"]
    IN  IF sent = "application/msgpack" THEN "application/msgpack"
        ELSE IF \E charset \in {"utf8", "latin1", "utf-8"} :
                    sent = "application/json; charset=" \o charset
        THEN "application/json"
        ELSE "other"

\* C18: send_response takes an exact Accept match before a wildcard. With JSON
\* and msgpack registered, in whichever order, 'application/json, */*;q=0.1'
\* selects JSON; an Accept header of one registered type selects that type.
C18_ExactBeforeWildcard ==
    last.op = "send_response" =>
        /\ (/\ AcceptOf(request_handler.request.headers) = "application/json, */*;q=0.1"
            /\ DOMAIN _content_types = {"application/json", "application/msgpack"})
               => (~last.result.raised /\ SentType = "application/json")
        /\ (/\ AcceptOf(request_handler.request.headers)
                   \in {"application/json", "application/msgpack"}
            /\ AcceptOf(request_handler.request.headers) \in DOMAIN _content_types)
               => (/\ ~last.result.raised
                   /\ SentType = AcceptOf(request_handler.request.headers))

\* JSON went out for 'application/json, */*;q=0.1' with both types registered
C18_Witness ==
    /\ last.op = "send_response"
    /\ AcceptOf(request_handler.request.headers) = "application/json, */*;q=0.1"
    /\ DOMAIN _content_types = {"application/json", "application/msgpack"}
    /\ ~last.result.raised
    /\ SentType = "application/json"

\* the bytes of the last write of the handler
Written == request_handler._write_buffer[Len(request_handler._write_buffer)]

\* the text the registered JSON dumper makes of the document just sent
Dumped == call(_content_handlers["application/json"].dict_to_string, last.response_dict).value

\* C19: send_response sets Content-Type to the selected registered type. For a
\* text codec the header has a charset parameter, and the bytes written are the
\* dumped text in that very charset; for a binary codec the header is the bare
\* type and has no charset parameter.
C19_ContentTypeNamesCharsetUsed ==
    (last.op = "send_response" /\ ~last.result.raised) =>
        /\ SentType \in DOMAIN _content_types
        /\ SentType \in Admitted(request_handler.request.headers)
        /\ SentType = "application/msgpack" =>
               /\ request_handler._headers["Content-Type"] = "application/msgpack"
               /\ Written = msgpack_packb(last.response_dict)
        /\ SentType = "application/json" =>
               \E charset \in {"utf8", "latin1", "utf-8"} :
                   /\ request_handler._headers["Content-Type"]
                          = "application/json; charset=" \o charset
                   /\ decode(Written, charset) = Ok(Dumped)

\* e-acute went out as Latin-1 bytes under application/json; charset=latin1
C19_Witness ==
    /\ last.op = "send_response"
    /\ ~last.result.raised
    /\ last.response_dict = StrValue(<<"eacute">>)
    /\ request_handler._headers["Content-Type"] = "application/json; charset=latin1"
    /\ Written = LatinBody

\* the charset parameter of the request's Content-Type; None when it has none
CharsetOf(headers) ==
    CASE headers["Content-Type"] = "application/json; charset=latin1" -> "latin1"
      [] headers["Content-Type"] = "application/json; charset=utf-8" -> "utf-8"
      [] OTHER -> None

\* the text of the request body in a charset, and the value JSON gives it
Loaded(charset) ==
    LET text == decode(request_handler.request.body, charset)
    IN  IF text.raised THEN Raise(Error400)
        ELSE IF json_loads(text.value).raised THEN Raise(Error400)
        ELSE json_loads(text.value)

\* C20: a text codec decodes the request body with the charset parameter of the
\* request's Content-Type, or with the handler's default encoding when there is
\* none, and encodes the response with the charset of Accept-Charset when the
\* text can be written in it; neither charset bears on the other.
C20_CharsetsIndependent ==
    /\ (last.op = "get_request_body" /\ last.decoded = 1) =>
           last.result =
               Loaded(IF CharsetOf(request_handler.request.headers) # None
                      THEN CharsetOf(request_handler.request.headers)
                      ELSE _content_handlers["application/json"].default_encoding)
    /\ (/\ last.op = "send_response"
        /\ ~last.result.raised
        /\ "Accept-Charset" \in DOMAIN request_handler.request.headers
        /\ ~encode(Dumped, request_handler.request.headers["Accept-Charset"]).raised) =>
           /\ request_handler._headers["Content-Type"] = "application/json; charset="
                  \o request_handler.request.headers["Accept-Charset"]
           /\ Ok(Written) = encode(Dumped, request_handler.request.headers["Accept-Charset"])

\* a Latin-1 request with Accept-Charset: utf8 was read as Latin-1 and answered
\* as application/json; charset=utf8 in UTF-8 bytes
C20_Witness ==
    /\ last.op = "send_response"
    /\ ~last.result.raised
    /\ request_handler.request.headers["Content-Type"] = "application/json; charset=latin1"
    /\ "Accept-Charset" \in DOMAIN request_handler.request.headers
    /\ request_handler.request.headers["Accept-Charset"] = "utf8"
    /\ request_handler.request.body = LatinBody
    /\ request_handler._request_body = StrValue(<<"eacute">>)
    /\ request_handler._headers["Content-Type"] = "application/json; charset=utf8"
    /\ _content_handlers["application/json"].default_encoding = "utf-8"
    /\ _content_handlers["application/json"].dict_to_string = UnicodeDumper
    /\ Written = Utf8Body

\* the Accept-Charset header of the request being handled; None when it has none
AcceptCharsetOf(headers) ==
    IF "Accept-Charset" \in DOMAIN headers THEN headers["Accept-Charset"] ELSE None

\* JSON, a text codec, is the one registered type the Accept header admits
OnlyJsonAdmitted ==
    Admitted(request_handler.request.headers) \cap DOMAIN _content_types
        = {"application/json"}

\* C21: when a text codec is selected and Accept-Charset names a charset that
\* Python has no codec for, send_response fails with 406, sets no Content-Type
\* and writes nothing.
C21_UnknownCharset406 ==
    (/\ last.op = "send_response"
     /\ OnlyJsonAdmitted
     /\ AcceptCharsetOf(request_handler.request.headers) = UnknownCharset)
        => /\ last.result.raised
           /\ last.result.value.type = "HTTPError"
           /\ last.result.value.status_code = 406
           /\ "Content-Type" \notin DOMAIN request_handler._headers
           /\ request_handler._write_buffer = << >>

\* JSON was asked for in charset foo and the answer was 406
C21_Witness ==
    /\ last.op = "send_response"
    /\ OnlyJsonAdmitted
    /\ AcceptOf(request_handler.request.headers) = "application/json"
    /\ AcceptCharsetOf(request_handler.request.headers) = UnknownCharset
    /\ last.result = Raise(WebHTTPError(406, "target charset foo not found"))

\* the charset send_response first tries for JSON: the one of Accept-Charset,
\* or the handler's default encoding when the request names none
Requested ==
    IF AcceptCharsetOf(request_handler.request.headers) # None
    THEN AcceptCharsetOf(request_handler.request.headers)
    ELSE _content_handlers["application/json"].default_encoding

\* C22: when the response text has a character the requested charset, or the
\* default one, cannot represent, send_response raises nothing, writes the whole
\* text as UTF-8 and labels the response charset=utf-8.
C22_FallbackUtf8 ==
    (/\ last.op = "send_response"
     /\ OnlyJsonAdmitted
     /\ Requested \in DOMAIN Charsets
     /\ encode(Dumped, Requested) = Raise(UnicodeEncodeError))
        => /\ ~last.result.raised
           /\ request_handler._headers["Content-Type"] = "application/json; charset=utf-8"
           /\ decode(Written, "utf-8") = Ok(Dumped)
           /\ Dumped = json_dumps_unicode(last.response_dict)

\* a Hangul syllable went out as UTF-8 though Latin-1 was the handler's default
C22_Witness ==
    /\ last.op = "send_response"
    /\ OnlyJsonAdmitted
    /\ AcceptCharsetOf(request_handler.request.headers) = None
    /\ _content_handlers["application/json"].default_encoding = "latin1"
    /\ last.response_dict = StrValue(<<Hangul>>)
    /\ ~last.result.raised
    /\ request_handler._headers["Content-Type"] = "application/json; charset=utf-8"
    /\ Written = HangulBody

\* the handler a type has before a registration; a new one if it has none
Before(key) ==
    IF key \in DOMAIN _content_handlers THEN _content_handlers[key]
    ELSE [content_type |-> key, dict_to_string |-> None, string_to_dict |-> None,
          dict_to_bytes |-> None, bytes_to_dict |-> None, default_encoding |-> None]

\* every handler but the one of the type is as it was
OthersKept(key) ==
    /\ DOMAIN _content_handlers' = DOMAIN _content_handlers \cup {key}
    /\ \A other \in DOMAIN _content_handlers :
           other # key => _content_handlers'[other] = _content_handlers[other]

\* C23: register_text_type sets the text dumper, the text loader and the default
\* encoding of the type's handler and nothing else; register_binary_type sets
\* the binary dumper and loader and nothing else. The other half of a handler
\* that exists stays as it was, whichever of the two calls comes first.
C23_RegistrationSetsOwnHalf ==
    [][/\ last'.op = "register_text_type" =>
              /\ OthersKept(last'.content_type)
              /\ _content_handlers'[last'.content_type] =
                     [Before(last'.content_type) EXCEPT
                          !.dict_to_string = last'.dumper,
                          !.string_to_dict = last'.loader,
                          !.default_encoding = last'.default_encoding]
       /\ last'.op = "register_binary_type" =>
              /\ OthersKept(last'.content_type)
              /\ _content_handlers'[last'.content_type] =
                     [Before(last'.content_type) EXCEPT
                          !.dict_to_bytes = last'.dumper,
                          !.bytes_to_dict = last'.loader]]_vars

\* JSON has a text and a binary codec, the binary one registered last
C23_Witness ==
    /\ last.op = "register_binary_type"
    /\ last.content_type = "application/json"
    /\ _content_handlers["application/json"].dict_to_string = TextHooks.dumper
    /\ _content_handlers["application/json"].string_to_dict = TextHooks.loader
    /\ _content_handlers["application/json"].default_encoding = "latin1"
    /\ _content_handlers["application/json"].dict_to_bytes = BinaryHooks.dumper
    /\ _content_handlers["application/json"].bytes_to_dict = BinaryHooks.loader

\* the type has a text codec and a binary codec
HasBoth(key) ==
    /\ key \in DOMAIN _content_handlers
    /\ _content_handlers[key].dict_to_string # None
    /\ _content_handlers[key].string_to_dict # None
    /\ _content_handlers[key].dict_to_bytes # None
    /\ _content_handlers[key].bytes_to_dict # None

\* the handler reads JSON text with its text loader and packs with its binary dumper
TextInBinaryOut(handler) ==
    /\ unpack_bytes(handler, TextBody, None) = Ok(StrValue(<<"a">>))
    /\ pack_bytes(handler, StrValue(<<"a">>), None) = Ok(<<None, PackedBody>>)

\* the handler reads packed bytes with its binary loader and writes JSON text
\* with its text dumper
BinaryInTextOut(handler) ==
    /\ unpack_bytes(handler, PackedBody, None) = Ok(StrValue(<<"a">>))
    /\ pack_bytes(handler, StrValue(<<"a">>), None)
           = Ok(<<handler.default_encoding, TextBody>>)

\* C24: once a text codec and a binary codec are registered for one type by two
\* calls, both are usable: the type's handler decodes a body by one of them and
\* encodes a response by the other.
C24_BothPathsUsable ==
    \A key \in Types :
        HasBoth(key) => \/ TextInBinaryOut(_content_handlers[key])
                        \/ BinaryInTextOut(_content_handlers[key])

\* the step is a registration
Registers == last'.op \in {"register_text_type", "register_binary_type"}

Resent ==
    [request |-> [headers |-> ("Content-Type" :> request_handler._headers["Content-Type"]),
                  body |-> Written],
     _request_body |-> NoneValue, _headers |-> EmptyDict, _write_buffer |-> << >>,
     _finished |-> FALSE]

\* C26: what send_response wrote for x, read back by get_request_body under the
\* Content-Type of the response, charset included, is x again, for the text
\* and the binary codec; x itself may have been decoded from the other codec.
C26_RoundTrip ==
    (last.op = "send_response" /\ ~last.result.raised) =>
        LET back == get_request_body(Resent, _content_types, _content_handlers)
        IN  /\ ~back.raised
            /\ back.value = last.response_dict
            /\ back.value = request_handler._request_body

\* a Hangul syllable came in as msgpack, went out as JSON and reads back the same
C26_Witness ==
    /\ last.op = "send_response"
    /\ ~last.result.raised
    /\ request_handler.request.headers["Content-Type"] = "application/msgpack"
    /\ SentType = "application/json"
    /\ last.response_dict = StrValue(<<Hangul>>)
    /\ get_request_body(Resent, _content_types, _content_handlers).value
           = StrValue(<<Hangul>>)

\* C27: a Response keeps a header dict of its own: whatever the test does to its own
\* dicts afterwards, the Response's headers are the items given at construction, in
\* a dict that is neither the test's nor another Response's; built without a reason
\* its reason is 'Unspecified', built without headers its headers are empty
C27_ResponseOwnsItsHeaders ==
    \A i \in 1..Len(built) :
        LET b == built[i]
        IN  /\ heap[b.self.headers.at] = b.given
            /\ b.self.headers.at \notin locals
            /\ \A j \in 1..Len(built) : j # i => built[j].self.headers # b.self.headers
            /\ b.reason = None => b.self.reason = "Unspecified"
            /\ b.headers = NoneValue => heap[b.self.headers.at] = EmptyDict

\* two responses: one built from a dict that the test changed afterwards, one built
\* without reason and headers
C27_Witness ==
    /\ \E i \in 1..Len(built) :
           /\ built[i].headers # NoneValue
           /\ built[i].given # EmptyDict
           /\ heap[built[i].headers.at] # built[i].given
    /\ \E i \in 1..Len(built) : built[i].headers = NoneValue /\ built[i].reason = None

\* C28: once the test that owns the ServiceLayer is torn down, no socket that
\* get_service created is still open
C28_NoSocketOpenAfterTeardown == torn_down => listening = {}

RepeatsKey(request) ==
    \E n \in DOMAIN request.query_arguments : Len(request.query_arguments[n]) > 1

\* C29: a request to a service's endpoint whose query string repeats a key fails the
\* assertion of record_request: it is answered with the server error of the failed
\* handler, the request log stays as it was and no queued response is taken
C29_RepeatedKeyRejected ==
    [][(/\ last'.op = "request"
        /\ last'.service # NoService
        /\ RepeatsKey(last'.request))
       => /\ last'.response.status = 500
          /\ last'.taken = << >>
          /\ _requests' = _requests
          /\ _responses' = _responses
          /\ delivered' = delivered]_vars

\* a request that repeats a key has been rejected while a response was queued for it
C29_Witness ==
    /\ last.op = "request"
    /\ last.service # NoService
    /\ RepeatsKey(last.request)
    /\ Get(_responses[last.service], <<last.request.method, last.request.path>>) # << >>
    /\ last.response.status = 500

\* the request asks for the variant list and its Accept matches no registered type
VlistUnmatched ==
    /\ last.op = "GET /rfc2295"
    /\ "Negotiate" \in DOMAIN last.headers
    /\ last.headers["Negotiate"] \in {"vlist", "trans, vlist"}
    /\ "Accept" \in DOMAIN last.headers
    /\ \A k \in DOMAIN _content_types :
           last.headers["Accept"] \notin {k, "*/*"}

\* C30: a GET with 'Negotiate: vlist' whose Accept matches no registered type is
\* answered 300 Multiple Choices with 'Vary: negotiate, accept', 'TCN: list' and an
\* Alternatives header that names every registered type once, with quality 1.0, and
\* no other type
C30_AlternativesListRegisteredTypes ==
    VlistUnmatched =>
        /\ last.response.status = 300
        /\ last.response.reason = "Multiple Choices"
        /\ DOMAIN last.response.headers = {"Alternatives", "TCN", "Vary"}
        /\ last.response.headers["Vary"] = "negotiate, accept"
        /\ last.response.headers["TCN"] = "list"
        /\ \E listed \in Orders(DOMAIN _content_types) :
               last.response.headers["Alternatives"] =
                   join_str(", ", [i \in DOMAIN listed |->
                       "{\"/rfc2295\" 1.0 {type " \o listed[i] \o "}}"])

\* the request of the repository's test: text and binary type registered, Accept
\* plain/text
C30_Witness ==
    /\ VlistUnmatched
    /\ last.headers["Accept"] = "plain/text"
    /\ DOMAIN _content_types = {"application/json", "application/msgpack"}
    /\ last.response.status = 300

\* C31: whatever the order of add_response calls and of the steps of the requests in
\* flight, for every service and (method, path) key the responses handed out so far
\* followed by the responses still queued are the responses added for the key, so
\* each response goes to one request at most and none is lost
C31_DeliveredThenQueuedIsAdded ==
    \A p \in Live : \A key \in Keys(p) :
        Get(delivered[p], key) \o Get(_responses[p], key) = Get(added[p], key)

\* a request has just taken a response while another request of the same key is in
\* flight and a response is still queued for it
C31_Witness ==
    /\ last.op = "request"
    /\ last.taken # << >>
    /\ in_flight # << >>
    /\ in_flight[1].service = last.service
    /\ <<in_flight[1].request.method, in_flight[1].request.path>> = LastKey
    /\ Get(_responses[last.service], LastKey) # << >>

\* the step is the handling of a request by a service's handler, the request meeting
\* the one-value-per-key precondition of record_request
HandledRequest ==
    /\ IsRequest
    /\ last'.op = "request"
    /\ last'.service # NoService
    /\ ~RepeatsKey(last'.request)

\* C32: handling a request for (method, path) takes the head off the queue of that
\* key, or leaves it empty, and appends one Request to the log of the path; every
\* other queue, other methods of the path included, and every request recorded
\* before stay as they were; get_requests_for, get_request and assert_request
\* change neither queues nor log
C32_RequestChangesOwnKeyOnly ==
    [][/\ HandledRequest =>
           /\ \A p \in Live : \A key \in DOMAIN _responses[p] \cup DOMAIN _responses'[p] :
                  Get(_responses'[p], key) =
                      IF p = last'.service
                         /\ key = <<last'.request.method, last'.request.path>>
                         /\ Get(_responses[p], key) # << >>
                      THEN Tail(Get(_responses[p], key))
                      ELSE Get(_responses[p], key)
           /\ \A p \in Live : \A path \in DOMAIN _requests[p] \cup DOMAIN _requests'[p] :
                  IF p = last'.service /\ path = last'.request.path
                  THEN /\ Len(Get(_requests'[p], path)) = Len(Get(_requests[p], path)) + 1
                       /\ IsPrefix(Get(_requests[p], path), Get(_requests'[p], path))
                       /\ Get(_requests'[p], path)[Len(Get(_requests'[p], path))].method
                              = last'.request.method
                  ELSE Get(_requests'[p], path) = Get(_requests[p], path)
       /\ last'.op \in {"get_requests_for", "get_request", "assert_request"} =>
           /\ _responses' = _responses
           /\ _requests' = _requests]_vars

\* a request was handled while its path had an earlier request in the log and a
\* response queued for the other method
C32_Witness ==
    /\ last.op = "request"
    /\ last.service # NoService
    /\ last.taken # << >>
    /\ Len(Get(_requests[last.service], last.request.path)) = 2
    /\ \E m \in Methods :
           /\ m # last.request.method
           /\ Get(_responses[last.service], <<m, last.request.path>>) # << >>

\* the rules that route a path to a service
RoutesOf(p, path) ==
    {i \in 1..Len(rules) : rules[i].service = p /\ rules[i].pattern = path}

\* the services that have the path among their endpoints
Registered(path) == {p \in Live : path \in _endpoints[p]}

\* C33: every service has one route for each of its endpoint paths and none for any
\* other path, however often the path was registered; the default error route is
\* the last rule and the only one of its kind; endpoint sets only grow; and so a
\* request for '/' that a service registered is not answered by the default route:
\* it gets the response programmed for it by the one service that registered '/'
C33_OneRoutePerEndpoint ==
    /\ [](/\ \A p \in Live : \A path \in _endpoints[p] : Cardinality(RoutesOf(p, path)) = 1
          /\ \A i \in 1..(Len(rules) - 1) :
                 /\ rules[i].handler = "_ServiceHandler"
                 /\ rules[i].service \in Live
                 /\ rules[i].pattern \in _endpoints[rules[i].service]
          /\ Len(rules) >= 1
          /\ rules[Len(rules)] = InitialRules[1])
    /\ [][/\ \A p \in Live : p \in DOMAIN _endpoints' /\ _endpoints[p] \subseteq _endpoints'[p]
          /\ (IsRequest /\ last'.request.path = <<"/">> /\ Registered(<<"/">>) # {}) =>
                 /\ last'.service \in Registered(<<"/">>)
                 /\ last'.response # _ErrorHandler
                 /\ (/\ Registered(<<"/">>) = {last'.service}
                     /\ Get(_responses[last'.service], <<"GET", <<"/">>>>) # << >>) =>
                        last'.response =
                            written(Head(Get(_responses[last'.service], <<"GET", <<"/">>>>)))]_vars

\* '/' was registered by add_endpoint and again by add_response, and the request
\* for it has been answered with the programmed response
C33_Witness ==
    /\ last.op = "request"
    /\ last.request.path = <<"/">>
    /\ last.response.status = 222
    /\ nAdds = 2
    /\ Len(rules) = 2

\* the call found no usable handler for the type it selected
NoUsableHandler ==
    /\ last.op \in {"get_request_body", "send_response"}
    /\ last.result.raised
    /\ last.result.value \in {AssertionError, KeyError}

\* C34: whatever was registered and cleared, the handlers and the content types
\* have the same keys, every key is the type/subtype string without parameters
\* and names the entries stored under it, every handler has a dumper and a
\* loader, and no request fails for want of a usable handler
C34_RegistryConsistent ==
    /\ DOMAIN _content_handlers = DOMAIN _content_types
    /\ \A key \in DOMAIN _content_types :
           /\ key = _content_types[key].content_type \o "/"
                        \o _content_types[key].content_subtype
           /\ _content_types[key].parameters = EmptyDict
           /\ _content_handlers[key].content_type = key
           /\ _content_handlers[key].dict_to_string # None
                  \/ _content_handlers[key].dict_to_bytes # None
           /\ _content_handlers[key].string_to_dict # None
                  \/ _content_handlers[key].bytes_to_dict # None
    /\ ~NoUsableHandler

\* both types are registered, JSON last by the registration that carries a
\* charset parameter, and a response has been sent
C34_Witness ==
    /\ DOMAIN _content_types = {"application/json", "application/msgpack"}
    /\ _content_handlers["application/json"].default_encoding = "latin1"
    /\ last.op = "send_response"
    /\ ~last.result.raised

\* what the binary loader of a handler makes of a body, as get_request_body
\* hands it on
BinaryLoaded(handler, body) ==
    LET loaded == call(handler.bytes_to_dict, body)
        value == IF loaded.raised THEN loaded ELSE recursive_unicode(loaded.value)
    IN  IF value.raised THEN Raise(Error400) ELSE value

\* the body was just decoded by a handler that has a binary loader
BinaryIn ==
    /\ last.op = "get_request_body"
    /\ last.selected = 1
    /\ Declared(request_handler.request.headers) \in DOMAIN _content_handlers
    /\ _content_handlers[Declared(request_handler.request.headers)].bytes_to_dict # None

\* a response was just asked of a handler that has a binary dumper
BinaryOut ==
    /\ last.op = "send_response"
    /\ AcceptOf(request_handler.request.headers) \in DOMAIN _content_handlers
    /\ _content_handlers[AcceptOf(request_handler.request.headers)].dict_to_bytes # None

\* C35: a handler with a binary loader decodes with it, whatever text loader it
\* has and whatever charset the Content-Type names: the outcome is the binary
\* loader's alone. A handler with a binary dumper encodes with it whatever
\* Accept-Charset says: the response never fails, its Content-Type is the bare
\* type and its body the binary dumper's bytes
C35_BinaryBeforeText ==
    /\ BinaryIn =>
           last.result = BinaryLoaded(
               _content_handlers[Declared(request_handler.request.headers)],
               request_handler.request.body)
    /\ BinaryOut =>
           /\ ~last.result.raised
           /\ request_handler._headers["Content-Type"]
                  = AcceptOf(request_handler.request.headers)
           /\ Written = call(_content_handlers[AcceptOf(request_handler.request.headers)]
                                 .dict_to_bytes, last.response_dict).value

\* JSON has a text and a binary codec; a packed body sent as charset=foo was
\* decoded, and the answer to Accept-Charset: foo went out as bare application/json
C35_Witness ==
    /\ HasBoth("application/json")
    /\ BinaryOut
    /\ request_handler.request.headers["Content-Type"] = "application/json; charset=foo"
    /\ AcceptOf(request_handler.request.headers) = "application/json"
    /\ AcceptCharsetOf(request_handler.request.headers) = UnknownCharset
    /\ request_handler._request_body = StrValue(<<"a">>)
    /\ request_handler._headers["Content-Type"] = "application/json"

====
